---- MODULE Spec2Model ----
(***************************************************************************)
(* Model of the FirstPlay Coach backend: the skill matcher and gap         *)
(* analyser (app/analysis/gap_analysis.py), the LangGraph pipeline         *)
(* (app/pipeline/graphy.py, app/pipeline/nodes.py) and the REST endpoints  *)
(* (app/routers/analysis.py, app/routers/resume.py, app/routers/job.py).   *)
(*                                                                         *)
(* A skill label is a Python str, modelled as a sequence of one-character  *)
(* strings, so that lower(), strip() and the alias lookup are computed.    *)
(***************************************************************************)
EXTENDS Integers, Sequences, FiniteSets, TLC

VARIABLES
    skill1, skill2,      \* the two arguments of skills_match
    skill3,              \* a third label, matched against the two
    match_out,           \* value returned by skills_match(Val(skill1), Val(skill2)), or None
    match_rev,           \* value returned by skills_match(Val(skill2), Val(skill1)), or None
    match_23,            \* value returned by skills_match(Val(skill2), Val(skill3)), or None
    match_13,            \* value returned by skills_match(Val(skill1), Val(skill3)), or None
    norm_out,            \* value returned by normalize_skill(skill1), or None
    norm_again,          \* value returned by normalize_skill(Val(norm_out)), or None
    resume_in,           \* the ResumeParsed object handed to compute_gap
    job_in,              \* the JobParsed object handed to compute_gap
    resume_arg0,         \* history: resume_in as first passed to compute_gap
    job_arg0,            \* history: job_in as first passed to compute_gap
    matching_out,        \* value returned by find_matching_skills, or None
    gap_out,             \* dict returned by the latest compute_gap call, or None
    gap_prev,            \* dict returned by the call before it, or None
    db,                  \* the tables behind the SQLAlchemy session
    pc,                  \* run_pipeline: "idle", "running", "returned" or "raised"
    channels,            \* the graph's state channels (a PipelineState), or None
    active,              \* the nodes of the current superstep of graph.invoke
    task,                \* per node: status and the state dict the node works on
    log,                 \* history: start and end of every node call of the run
    result,              \* what run_pipeline gave its caller, or None
    runs,                \* number of run_pipeline calls so far
    inst,                \* concurrent run_pipeline calls: per call its arguments,
                         \* position, nodes of the step and outcome
    heap,                \* the PipelineState instances: per instance its value, or None
    api                  \* the REST request served last: endpoint, parameters, response,
                         \* the tables before and after it and the calls made, or None

matchVars == <<skill1, skill2, skill3, match_out, match_rev, match_23, match_13,
              norm_out, norm_again>>
gapVars == <<resume_in, job_in, resume_arg0, job_arg0, matching_out, gap_out, gap_prev>>
pipeVars == <<db, pc, channels, active, task, log, result, runs>>
runVars == <<inst, heap>>
apiVars == <<api>>
vars == <<matchVars, gapVars, pipeVars, runVars, apiVars>>

\* Python's None; a variable that may hold None holds None or Some(v)
None == <<>>
Some(v) == <<v>>
Val(o) == o[1]

Range(s) == {s[i] : i \in DOMAIN s}

(***************************************************************************)
(* str.lower() and str.strip() on ASCII text.                              *)
(***************************************************************************)
ascii_uppercase ==
    <<"A","B","C","D","E","F","G","H","I","J","K","L","M",
      "N","O","P","Q","R","S","T","U","V","W","X","Y","Z">>
ascii_lowercase ==
    <<"a","b","c","d","e","f","g","h","i","j","k","l","m",
      "n","o","p","q","r","s","t","u","v","w","x","y","z">>
whitespace == {" ", "\t", "\n"}

\* the lowercase letter of every uppercase letter
lower_of == [c \in Range(ascii_uppercase) |->
                ascii_lowercase[CHOOSE i \in DOMAIN ascii_uppercase : ascii_uppercase[i] = c]]

lower_char(c) == IF c \in DOMAIN lower_of THEN lower_of[c] ELSE c

str_lower(s) == [i \in DOMAIN s |-> lower_char(s[i])]

RECURSIVE str_lstrip(_)
str_lstrip(s) ==
    IF s # <<>> /\ Head(s) \in whitespace THEN str_lstrip(Tail(s)) ELSE s

RECURSIVE str_rstrip(_)
str_rstrip(s) ==
    IF s # <<>> /\ s[Len(s)] \in whitespace
    THEN str_rstrip(SubSeq(s, 1, Len(s) - 1))
    ELSE s

str_strip(s) == str_rstrip(str_lstrip(s))

(***************************************************************************)
(* normalize_skill: the alias table, in dictionary order, and the lookup.  *)
(***************************************************************************)
\* the alias of "nodejs" is "node.js", itself a key of the table
replacements_chained ==
    << [old |-> <<"j","a","v","a","s","c","r","i","p","t">>, new |-> <<"j","s">>],
       [old |-> <<"t","y","p","e","s","c","r","i","p","t">>, new |-> <<"t","s">>],
       [old |-> <<"p","o","s","t","g","r","e","s","q","l">>,
        new |-> <<"p","o","s","t","g","r","e","s">>],
       [old |-> <<"r","e","a","c","t","j","s">>, new |-> <<"r","e","a","c","t">>],
       [old |-> <<"r","e","a","c","t",".","j","s">>, new |-> <<"r","e","a","c","t">>],
       [old |-> <<"n","o","d","e",".","j","s">>, new |-> <<"n","o","d","e">>],
       [old |-> <<"n","o","d","e","j","s">>, new |-> <<"n","o","d","e",".","j","s">>] >>

replacements ==
    << [old |-> <<"j","a","v","a","s","c","r","i","p","t">>, new |-> <<"j","s">>],
       [old |-> <<"t","y","p","e","s","c","r","i","p","t">>, new |-> <<"t","s">>],
       [old |-> <<"p","o","s","t","g","r","e","s","q","l">>,
        new |-> <<"p","o","s","t","g","r","e","s">>],
       [old |-> <<"r","e","a","c","t","j","s">>, new |-> <<"r","e","a","c","t">>],
       [old |-> <<"r","e","a","c","t",".","j","s">>, new |-> <<"r","e","a","c","t">>],
       [old |-> <<"n","o","d","e",".","j","s">>, new |-> <<"n","o","d","e">>],
       [old |-> <<"n","o","d","e","j","s">>, new |-> <<"n","o","d","e">>] >>

\* a prefix test in place of the equality test of the lookup loop
normalize_skill_prefix(skill) ==
    LET s == str_strip(str_lower(skill))
        hit(i) == Len(s) >= Len(replacements[i].old)
                  /\ SubSeq(s, 1, Len(replacements[i].old)) = replacements[i].old
        hits == {i \in DOMAIN replacements : hit(i)}
    IN  IF hits # {}
        THEN replacements[CHOOSE i \in hits : \A j \in hits : i <= j].new
        ELSE s

normalize_skill(skill) ==
    LET s == str_strip(str_lower(skill))
        hits == {i \in DOMAIN replacements : s = replacements[i].old}
    IN  IF hits # {}
        THEN replacements[CHOOSE i \in hits : \A j \in hits : i <= j].new
        ELSE s

\* the second argument is lowercased and trimmed but not looked up
skills_match_onesided(s1, s2) == normalize_skill(s1) = str_strip(str_lower(s2))

skills_match(s1, s2) == normalize_skill(s1) = normalize_skill(s2)

(***************************************************************************)
(* find_matching_skills and compute_gap.                                   *)
(***************************************************************************)

\* {normalize_skill(s): s for s in resume_skills}: a later entry replaces an
\* earlier one with the same key
resume_normalized(resume_skills) ==
    LET keys == {normalize_skill(resume_skills[i]) : i \in DOMAIN resume_skills}
        last(k) == CHOOSE i \in DOMAIN resume_skills :
                      /\ normalize_skill(resume_skills[i]) = k
                      /\ \A j \in DOMAIN resume_skills :
                            normalize_skill(resume_skills[j]) = k => j <= i
    IN  [k \in keys |-> resume_skills[last(k)]]

\* looks job_skill itself up in the dictionary, not its normalized form
find_matching_skills_raw_lookup(resume_skills, job_skills) ==
    LET d == resume_normalized(resume_skills)
    IN  SelectSeq(job_skills, LAMBDA js : js \in DOMAIN d)

\* appends the dictionary's value (the resume's spelling) instead of job_skill
find_matching_skills_resume_label(resume_skills, job_skills) ==
    LET d == resume_normalized(resume_skills)
        hit == SelectSeq(job_skills, LAMBDA js : normalize_skill(js) \in DOMAIN d)
    IN  [i \in DOMAIN hit |-> d[normalize_skill(hit[i])]]

find_matching_skills(resume_skills, job_skills) ==
    LET d == resume_normalized(resume_skills)
    IN  SelectSeq(job_skills, LAMBDA js : normalize_skill(js) \in DOMAIN d)

\* compares the labels themselves instead of calling skills_match
missing_skills_exact(resume_skills, job_skills) ==
    SelectSeq(job_skills,
              LAMBDA skill : ~ \E i \in DOMAIN resume_skills : skill = resume_skills[i])

\* the condition of the comprehension without its "not"
missing_skills_inverted(resume_skills, job_skills) ==
    SelectSeq(job_skills,
              LAMBDA skill : \E i \in DOMAIN resume_skills :
                                skills_match(skill, resume_skills[i]))

\* [skill for skill in job_skills if not any(skills_match(skill, rs) for rs in resume_skills)]
missing_skills(resume_skills, job_skills) ==
    SelectSeq(job_skills,
              LAMBDA skill : ~ \E i \in DOMAIN resume_skills :
                                skills_match(skill, resume_skills[i]))

\* list(set(xs)): the elements of xs once each, in an order Python does not fix
RECURSIVE list_of_set(_)
list_of_set(S) ==
    IF S = {} THEN {<<>>}
    ELSE UNION {{<<x>> \o p : p \in list_of_set(S \ {x})} : x \in S}

Returned(v) == [raised |-> FALSE, value |-> v]
Raised(e) == [raised |-> TRUE, exc |-> e]

\* the messages of the AttributeError of an attribute access on None
AttributeError ==
    [skills |-> <<"'NoneType' object has no attribute 'skills'">>,
     required_skills |-> <<"'NoneType' object has no attribute 'required_skills'">>,
     get |-> <<"'NoneType' object has no attribute 'get'">>,
     model_dump_json |-> <<"'NoneType' object has no attribute 'model_dump_json'">>,
     job_title |-> <<"'NoneType' object has no attribute 'job_title'">>]

\* all_overlapping = overlapping_required + overlapping_preferred, no set()
compute_gap_no_dedup(resume, job) ==
    IF resume = None THEN {Raised(AttributeError.skills)}
    ELSE IF job = None THEN {Raised(AttributeError.required_skills)}
    ELSE {Returned([overlapping_skills |->
                        find_matching_skills(Val(resume).skills, Val(job).required_skills)
                        \o find_matching_skills(Val(resume).skills, Val(job).preferred_skills),
                    missing_required_skills |->
                        missing_skills(Val(resume).skills, Val(job).required_skills),
                    missing_preferred_skills |->
                        missing_skills(Val(resume).skills, Val(job).preferred_skills),
                    weak_skills |-> <<>>])}

\* the missing lists built through set(), like the overlapping list
compute_gap_missing_via_set(resume, job) ==
    IF resume = None THEN {Raised(AttributeError.skills)}
    ELSE IF job = None THEN {Raised(AttributeError.required_skills)}
    ELSE {Returned([overlapping_skills |-> ov,
                    missing_required_skills |-> mr,
                    missing_preferred_skills |-> mp,
                    weak_skills |-> <<>>]) :
            ov \in list_of_set(
                     Range(find_matching_skills(Val(resume).skills, Val(job).required_skills)
                           \o find_matching_skills(Val(resume).skills, Val(job).preferred_skills))),
            mr \in list_of_set(Range(missing_skills(Val(resume).skills, Val(job).required_skills))),
            mp \in list_of_set(Range(missing_skills(Val(resume).skills, Val(job).preferred_skills)))}

\* the resume's own skills that match, instead of the job's labels
compute_gap_resume_side(resume, job) ==
    IF resume = None THEN {Raised(AttributeError.skills)}
    ELSE IF job = None THEN {Raised(AttributeError.required_skills)}
    ELSE {Returned([overlapping_skills |-> ov,
                    missing_required_skills |->
                        missing_skills(Val(resume).skills, Val(job).required_skills),
                    missing_preferred_skills |->
                        missing_skills(Val(resume).skills, Val(job).preferred_skills),
                    weak_skills |-> <<>>]) :
            ov \in list_of_set(
                     Range(find_matching_skills(Val(job).required_skills \o Val(job).preferred_skills,
                                                Val(resume).skills)))}

\* a None argument is taken as an object without skills
compute_gap_none_as_empty(resume, job) ==
    LET rs == IF resume = None THEN <<>> ELSE Val(resume).skills
        req == IF job = None THEN <<>> ELSE Val(job).required_skills
        pref == IF job = None THEN <<>> ELSE Val(job).preferred_skills
    IN  {Returned([overlapping_skills |-> ov,
                   missing_required_skills |-> missing_skills(rs, req),
                   missing_preferred_skills |-> missing_skills(rs, pref),
                   weak_skills |-> <<>>]) :
           ov \in list_of_set(Range(find_matching_skills(rs, req)
                                    \o find_matching_skills(rs, pref)))}

\* compute_gap returns one of these outcomes: the order of overlapping_skills
\* is the iteration order of a set; a None argument fails on its first
\* attribute access (line 69 or line 72)
compute_gap(resume, job) ==
    IF resume = None THEN {Raised(AttributeError.skills)}
    ELSE IF job = None THEN {Raised(AttributeError.required_skills)}
    ELSE {Returned([overlapping_skills |-> ov,
                    missing_required_skills |->
                        missing_skills(Val(resume).skills, Val(job).required_skills),
                    missing_preferred_skills |->
                        missing_skills(Val(resume).skills, Val(job).preferred_skills),
                    weak_skills |-> <<>>]) :
            ov \in list_of_set(
                     Range(find_matching_skills(Val(resume).skills, Val(job).required_skills)
                           \o find_matching_skills(Val(resume).skills, Val(job).preferred_skills)))}

(***************************************************************************)
(* Skill labels the operations are applied to.                             *)
(***************************************************************************)
lbl ==
    [Python |-> <<"P","y","t","h","o","n">>,
     python |-> <<"p","y","t","h","o","n">>,
     Java |-> <<"J","a","v","a">>,
     JavaScript |-> <<"J","a","v","a","S","c","r","i","p","t">>,
     JS |-> <<"J","S">>,
     js_padded |-> <<" "," ","J","s"," ">>,
     JavaScripts |-> <<"J","a","v","a","S","c","r","i","p","t","s">>,
     React_js |-> <<"R","e","a","c","t",".","j","s">>,
     React |-> <<"R","e","a","c","t">>,
     PostgreSQL |-> <<"P","o","s","t","g","r","e","S","Q","L">>,
     Postgres |-> <<"P","o","s","t","g","r","e","s">>,
     AWS |-> <<"A","W","S">>,
     NodeJS |-> <<"N","o","d","e","J","S">>,
     empty |-> <<>>,
     blank |-> <<" ">>]

Labels ==
    {lbl.Python, lbl.python, lbl.Java, lbl.JavaScript, lbl.JS, lbl.js_padded,
     lbl.JavaScripts, lbl.React_js, lbl.React, lbl.PostgreSQL, lbl.Postgres,
     lbl.AWS, lbl.NodeJS, lbl.empty, lbl.blank}

\* labels of Val(resume).skills and of Val(job).required_skills / Val(job).preferred_skills
ResumeLabels == {lbl.python, lbl.JS}
JobLabels == {lbl.Python, lbl.python, lbl.JavaScript}

MaxResumeSkills == 2
MaxRequiredSkills == 2
MaxPreferredSkills == 1

SeqsUpTo(S, n) == UNION {[1..k -> S] : k \in 0..n}

ResumeParsed(skills) == [skills |-> skills]
JobParsed(required, preferred) ==
    [required_skills |-> required, preferred_skills |-> preferred]

(***************************************************************************)
(* The pipeline: tables, collaborators, the five nodes and the graph.      *)
(***************************************************************************)
MaxResumes == 1
MaxJobs == 1
MaxRuns == 2

\* model_dump_json / json.dumps and model_validate_json / json.loads
model_dump_json(obj) == [json |-> obj]
model_validate_json(text) == text.json

\* the resume and job posting texts uploaded, and what the LLM parsers
\* extract from them when they succeed
resume_text == "Sample resume text"
job_text == "Sample job text"
parsed_resume == ResumeParsed(<<lbl.python, lbl.Java>>)
parsed_job == JobParsed(<<lbl.Python, lbl.AWS>>, <<lbl.JavaScript>>)
other_resume_text == "Other resume text"
other_job_text == "Other job text"
other_parsed_resume == ResumeParsed(<<lbl.JS>>)
other_parsed_job == JobParsed(<<lbl.JavaScript>>, <<>>)
project_plan == [projects |-> <<"React App">>]
improved_resume_parsed == [name |-> "Test User", skills |-> <<lbl.python, lbl.JS>>]

\* str(e) of what the collaborators raise
LLMError == <<"LLM call failed">>
OperationalError == <<"(sqlite3.OperationalError) database is locked">>
IntegrityError ==
    <<"(sqlite3.IntegrityError) NOT NULL constraint failed: project_plans.analysis_id">>

parse_resume_text(text) ==
    {Returned(IF text = resume_text THEN parsed_resume ELSE other_parsed_resume),
     Raised(<<"Failed to parse resume: ">> \o LLMError)}

parse_jd_text(text) ==
    {Returned(IF text = job_text THEN parsed_job ELSE other_parsed_job),
     Raised(<<"Failed to parse job description: ">> \o LLMError)}

generate_projects(gap_analysis) ==
    IF gap_analysis = None THEN {Raised(AttributeError.get)}
    ELSE {Returned(project_plan), Raised(<<"Failed to generate projects: ">> \o LLMError)}

improve_resume(resume, job, gap_analysis) ==
    IF resume = None THEN {Raised(AttributeError.model_dump_json)}
    ELSE IF job = None THEN {Raised(AttributeError.job_title)}
    ELSE IF gap_analysis = None THEN {Raised(AttributeError.get)}
    ELSE {Returned(improved_resume_parsed),
          Raised(<<"Failed to improve resume: ">> \o LLMError)}

\* db.commit(): the transaction commits, or the database refuses it
db_commit == {Returned(None), Raised(OperationalError)}

\* db.query(Model).filter(Model.id == id).first()
first(table, id) == IF id \in DOMAIN table THEN Some(table[id]) ELSE None

\* db.add(row); db.commit(); db.refresh(row): the row gets the next id
add_row(table, row) == Append(table, row)

initial_state(resume_id, job_id) ==
    [resume_id |-> resume_id,
     job_id |-> job_id,
     resume_parsed |-> None,
     job_parsed |-> None,
     gap_analysis |-> None,
     projects |-> None,
     improved_resume |-> None,
     analysis_id |-> None,
     project_plan_id |-> None,
     improved_resume_id |-> None,
     error |-> None]

StateKeys ==
    <<"resume_id", "job_id", "resume_parsed", "job_parsed", "gap_analysis",
      "projects", "improved_resume", "analysis_id", "project_plan_id",
      "improved_resume_id", "error">>

\* db.query(Model).filter(Model.id == id).first(): the row or None, or the
\* database refuses the query
db_query(table, id) == {Returned(first(table, id)), Raised(OperationalError)}

\* a collaborator call a node made: which one, whether it raised, and for a
\* query the row it returned
Call(fn, outcome) ==
    [fn |-> fn,
     raised |-> outcome.raised,
     value |-> IF fn = "query" /\ ~ outcome.raised THEN outcome.value ELSE None]

\* a node call ends by returning its state dict; it leaves the tables, has
\* made the collaborator calls and has read the state keys given
NodeResult(state, tables, calls, reads) ==
    [raised |-> FALSE, exc |-> <<>>, state |-> state, db |-> tables,
     calls |-> calls, reads |-> reads]

\* the parser's exception leaves parse_resume_node
parse_resume_node_uncaught(state, tables) ==
    {[raised |-> TRUE, exc |-> <<"Failed to parse resume: ">> \o LLMError,
      state |-> state, db |-> tables,
      calls |-> <<Call("query", Returned(first(tables.resumes, state.resume_id))),
                  Call("parse_resume_text", Raised(LLMError))>>,
      reads |-> {"resume_id"}]}

\* parse_resume_text is called whether or not the row has a parsed_json
parse_resume_node_reparse(state, tables) ==
    LET resume == first(tables.resumes, state.resume_id)
    IN  IF resume = None
        THEN {NodeResult(
                 [state EXCEPT !.error =
                     Some(<<"Resume ", ToString(state.resume_id), " not found">>)],
                 tables, <<Call("query", Returned(resume))>>, {"resume_id"})}
        ELSE {NodeResult(
                 [state EXCEPT !.resume_parsed = Some(parsed_resume)],
                 [tables EXCEPT !.resumes[state.resume_id].parsed_json =
                     Some(model_dump_json(parsed_resume))],
                 <<Call("query", Returned(resume)),
                   Call("parse_resume_text", Returned(parsed_resume)),
                   Call("commit", Returned(None))>>,
                 {"resume_id"})}

parse_resume_node(state, tables) ==
    LET reads == {"resume_id"}
        failed(e, calls) == NodeResult(
            [state EXCEPT !.error = Some(<<"Error parsing resume: ">> \o e)],
            tables, calls, reads)
    IN  UNION {
          LET q1 == <<Call("query", q)>>
          IN  IF q.raised THEN {failed(q.exc, q1)}
              ELSE IF q.value = None
              THEN {NodeResult(
                       [state EXCEPT !.error =
                           Some(<<"Resume ", ToString(state.resume_id), " not found">>)],
                       tables, q1, reads)}
              ELSE IF Val(q.value).parsed_json = None
              THEN UNION {
                     LET q2 == Append(q1, Call("parse_resume_text", parsed))
                     IN  IF parsed.raised THEN {failed(parsed.exc, q2)}
                         ELSE {LET q3 == Append(q2, Call("commit", c))
                               IN  IF c.raised THEN failed(c.exc, q3)
                                   ELSE NodeResult(
                                          [state EXCEPT !.resume_parsed = Some(parsed.value)],
                                          [tables EXCEPT
                                              !.resumes[state.resume_id].parsed_json =
                                                  Some(model_dump_json(parsed.value))],
                                          q3, reads)
                               : c \in db_commit}
                     : parsed \in parse_resume_text(Val(q.value).raw_text)}
              ELSE {NodeResult(
                       [state EXCEPT !.resume_parsed =
                           Some(model_validate_json(Val(Val(q.value).parsed_json)))],
                       tables, q1, reads)}
          : q \in db_query(tables.resumes, state.resume_id)}

\* a missing job leaves the state as it was
parse_job_node_silent(state, tables) ==
    {NodeResult(state, tables,
                <<Call("query", Returned(first(tables.job_descriptions, state.job_id)))>>,
                {"job_id"})}

parse_job_node(state, tables) ==
    LET reads == {"job_id"}
        failed(e, calls) == NodeResult(
            [state EXCEPT !.error = Some(<<"Error parsing job: ">> \o e)],
            tables, calls, reads)
    IN  UNION {
          LET q1 == <<Call("query", q)>>
          IN  IF q.raised THEN {failed(q.exc, q1)}
              ELSE IF q.value = None
              THEN {NodeResult(
                       [state EXCEPT !.error =
                           Some(<<"Job ", ToString(state.job_id), " not found">>)],
                       tables, q1, reads)}
              ELSE IF Val(q.value).parsed_json = None
              THEN UNION {
                     LET q2 == Append(q1, Call("parse_jd_text", parsed))
                     IN  IF parsed.raised THEN {failed(parsed.exc, q2)}
                         ELSE {LET q3 == Append(q2, Call("commit", c))
                               IN  IF c.raised THEN failed(c.exc, q3)
                                   ELSE NodeResult(
                                          [state EXCEPT !.job_parsed = Some(parsed.value)],
                                          [tables EXCEPT
                                              !.job_descriptions[state.job_id].parsed_json =
                                                  Some(model_dump_json(parsed.value))],
                                          q3, reads)
                               : c \in db_commit}
                     : parsed \in parse_jd_text(Val(q.value).extracted_text)}
              ELSE {NodeResult(
                       [state EXCEPT !.job_parsed =
                           Some(model_validate_json(Val(Val(q.value).parsed_json)))],
                       tables, q1, reads)}
          : q \in db_query(tables.job_descriptions, state.job_id)}

\* state["analysis_id"] is assigned before db.commit()
analyze_gap_node_id_before_commit(state, tables) ==
    UNION {
      LET q1 == <<Call("compute_gap", gap)>>
      IN  IF gap.raised
          THEN {NodeResult(
                   [state EXCEPT !.error = Some(<<"Error in gap analysis: ">> \o gap.exc)],
                   tables, q1, {"resume_parsed", "job_parsed"})}
          ELSE {LET q2 == Append(q1, Call("commit", c))
                    reads == {"resume_parsed", "job_parsed", "resume_id", "job_id"}
                IN  IF c.raised
                    THEN NodeResult(
                           [state EXCEPT !.gap_analysis = Some(gap.value),
                                         !.analysis_id = Some(Len(tables.gap_analyses) + 1),
                                         !.error = Some(<<"Error in gap analysis: ">> \o c.exc)],
                           tables, q2, reads)
                    ELSE NodeResult(
                           [state EXCEPT !.gap_analysis = Some(gap.value),
                                         !.analysis_id = Some(Len(tables.gap_analyses) + 1)],
                           [tables EXCEPT !.gap_analyses =
                               add_row(@, [resume_id |-> state.resume_id,
                                           job_id |-> state.job_id,
                                           analysis_json |-> model_dump_json(gap.value)])],
                           q2, reads)
                : c \in db_commit}
      : gap \in compute_gap(state.resume_parsed, state.job_parsed)}

analyze_gap_node(state, tables) ==
    UNION {
      LET q1 == <<Call("compute_gap", gap)>>
      IN  IF gap.raised
          THEN {NodeResult(
                   [state EXCEPT !.error = Some(<<"Error in gap analysis: ">> \o gap.exc)],
                   tables, q1, {"resume_parsed", "job_parsed"})}
          ELSE {LET q2 == Append(q1, Call("commit", c))
                    reads == {"resume_parsed", "job_parsed", "resume_id", "job_id"}
                IN  IF c.raised
                    THEN NodeResult(
                           [state EXCEPT !.gap_analysis = Some(gap.value),
                                         !.error = Some(<<"Error in gap analysis: ">> \o c.exc)],
                           tables, q2, reads)
                    ELSE NodeResult(
                           [state EXCEPT !.gap_analysis = Some(gap.value),
                                         !.analysis_id = Some(Len(tables.gap_analyses) + 1)],
                           [tables EXCEPT !.gap_analyses =
                               add_row(@, [resume_id |-> state.resume_id,
                                           job_id |-> state.job_id,
                                           analysis_json |-> model_dump_json(gap.value)])],
                           q2, reads)
                : c \in db_commit}
      : gap \in compute_gap(state.resume_parsed, state.job_parsed)}

\* project_plans.analysis_id takes NULL
commit_project_plan_nullable(analysis_id) == db_commit

\* project_plans.analysis_id is NOT NULL: a plan without one cannot commit
commit_project_plan(analysis_id) ==
    IF analysis_id = None THEN {Raised(IntegrityError)} ELSE db_commit

generate_projects_node(state, tables) ==
    UNION {
      LET q1 == <<Call("generate_projects", plan)>>
      IN  IF plan.raised
          THEN {NodeResult(
                   [state EXCEPT !.error =
                       Some(<<"Error generating projects: ">> \o plan.exc)],
                   tables, q1, {"gap_analysis"})}
          ELSE {LET q2 == Append(q1, Call("commit", c))
                    reads == {"gap_analysis", "analysis_id"}
                IN  IF c.raised
                    THEN NodeResult(
                           [state EXCEPT !.projects = Some(plan.value),
                                         !.error =
                                             Some(<<"Error generating projects: ">> \o c.exc)],
                           tables, q2, reads)
                    ELSE NodeResult(
                           [state EXCEPT !.projects = Some(plan.value),
                                         !.project_plan_id =
                                             Some(Len(tables.project_plans) + 1)],
                           [tables EXCEPT !.project_plans =
                               add_row(@, [analysis_id |-> state.analysis_id,
                                           plan_json |-> model_dump_json(plan.value)])],
                           q2, reads)
                : c \in commit_project_plan(state.analysis_id)}
      : plan \in generate_projects(state.gap_analysis)}

improve_resume_node(state, tables) ==
    UNION {
      LET q1 == <<Call("improve_resume", improved)>>
      IN  IF improved.raised
          THEN {NodeResult(
                   [state EXCEPT !.error =
                       Some(<<"Error improving resume: ">> \o improved.exc)],
                   tables, q1, {"resume_parsed", "job_parsed", "gap_analysis"})}
          ELSE {LET q2 == Append(q1, Call("commit", c))
                    reads == {"resume_parsed", "job_parsed", "gap_analysis",
                              "resume_id", "job_id"}
                IN  IF c.raised
                    THEN NodeResult(
                           [state EXCEPT !.improved_resume = Some(improved.value),
                                         !.error =
                                             Some(<<"Error improving resume: ">> \o c.exc)],
                           tables, q2, reads)
                    ELSE NodeResult(
                           [state EXCEPT !.improved_resume = Some(improved.value),
                                         !.improved_resume_id =
                                             Some(Len(tables.improved_resumes) + 1)],
                           [tables EXCEPT !.improved_resumes =
                               add_row(@, [resume_id |-> state.resume_id,
                                           job_id |-> state.job_id,
                                           improved_json |-> model_dump_json(improved.value)])],
                           q2, reads)
                : c \in db_commit}
      : improved \in improve_resume(state.resume_parsed, state.job_parsed,
                                    state.gap_analysis)}

(***************************************************************************)
(* create_pipeline_graph: the compiled StateGraph.  graph.invoke runs it in *)
(* supersteps: the nodes of a step all get the channel values of the end    *)
(* of the step before, run concurrently, and their returned dicts are       *)
(* written to the channels when all have ended; a channel of a plain        *)
(* TypedDict key takes one value per step.                                  *)
(***************************************************************************)
END == "__end__"
Nodes ==
    {"parse_resume", "parse_job", "analyze_gap", "generate_projects", "improve_resume"}
entry_point == "parse_resume"

\* parse_resume also leads to generate_projects
edges_early_fanout ==
    {<<"parse_resume", "parse_job">>,
     <<"parse_resume", "generate_projects">>,
     <<"parse_job", "analyze_gap">>,
     <<"analyze_gap", "improve_resume">>,
     <<"generate_projects", END>>,
     <<"improve_resume", END>>}

\* the graph ends after analyze_gap
edges_no_generation ==
    {<<"parse_resume", "parse_job">>,
     <<"parse_job", "analyze_gap">>,
     <<"analyze_gap", END>>}

edges ==
    {<<"parse_resume", "parse_job">>,
     <<"parse_job", "analyze_gap">>,
     <<"analyze_gap", "generate_projects">>,
     <<"analyze_gap", "improve_resume">>,
     <<"generate_projects", END>>,
     <<"improve_resume", END>>}

successors(ns) == {e[2] : e \in {d \in edges : d[1] \in ns}} \ {END}

InvalidUpdateError(key) ==
    <<"At key '", key, "': Can receive only one value per step. ",
      "Use an Annotated key to handle multiple values.">>

\* the channel update at the end of a superstep; written is the set of nodes
\* of the step and returned[n] the dict node n returned (every node returns
\* its whole state dict, so every node writes every key)
apply_writes(written, returned) ==
    IF Cardinality(written) > 1
    THEN Raised(InvalidUpdateError(StateKeys[1]))
    ELSE Returned(returned[CHOOSE n \in written : TRUE])

\* run_pipeline, lines 94-105: what the caller gets for an outcome of
\* graph.invoke
run_pipeline_result(invoked) ==
    IF invoked.raised
    THEN Raised(<<"Pipeline execution failed: ">> \o invoked.exc)
    ELSE IF invoked.value.error # None /\ Val(invoked.value.error) # <<>>
    THEN Raised(<<"Pipeline execution failed: ">> \o Val(invoked.value.error))
    ELSE Returned(invoked.value)

\* a node of the graph: not scheduled ("none"), scheduled with the channel
\* values as its input ("pending"), called ("running") or ended ("done") with
\* the dict it returned, the collaborator calls it made and the keys it read
Task(status, state) ==
    [status |-> status, state |-> state, raised |-> FALSE, exc |-> <<>>,
     calls |-> <<>>, reads |-> {}]

idle_task == Task("none", None)

\* the callers that call run_pipeline concurrently, each with a session of
\* its own on the one database
Calls == {"a", "b"}

idle_inst ==
    [status |-> "idle", args |-> None, active |-> {},
     task |-> [n \in Nodes |-> idle_task], result |-> None]

PipeIdle ==
    /\ db = [resumes |-> <<>>, job_descriptions |-> <<>>, gap_analyses |-> <<>>,
             project_plans |-> <<>>, improved_resumes |-> <<>>]
    /\ pc = "idle"
    /\ channels = None
    /\ active = {}
    /\ task = [n \in Nodes |-> idle_task]
    /\ log = <<>>
    /\ result = None
    /\ runs = 0

(***************************************************************************)
(* SpecMatch: normalize_skill and skills_match applied to pairs of labels. *)
(***************************************************************************)
\* the parts of the state a specification does not use stay idle
RunsIdle ==
    /\ inst = [c \in Calls |-> idle_inst]
    /\ heap = [c \in Calls |-> None]

ApiIdle == api = None

GapIdle ==
    /\ resume_in = None /\ job_in = None
    /\ resume_arg0 = None /\ job_arg0 = None
    /\ matching_out = None /\ gap_out = None /\ gap_prev = None

MatchIdle ==
    /\ skill1 = None /\ skill2 = None /\ skill3 = None
    /\ match_out = None /\ match_rev = None /\ match_23 = None /\ match_13 = None
    /\ norm_out = None /\ norm_again = None

MatchInit ==
    /\ \E a \in Labels : skill1 = Some(a)
    /\ \E b \in Labels : skill2 = Some(b)
    /\ \E c \in Labels : skill3 = Some(c)
    /\ match_out = None /\ match_rev = None /\ match_23 = None /\ match_13 = None
    /\ norm_out = None /\ norm_again = None
    /\ GapIdle
    /\ PipeIdle
    /\ RunsIdle
    /\ ApiIdle

NormalizeSkill ==
    /\ norm_out = None
    /\ norm_out' = Some(normalize_skill(Val(skill1)))
    /\ UNCHANGED <<skill1, skill2, skill3, match_out, match_rev, match_23, match_13,
                   norm_again, gapVars, pipeVars, runVars, apiVars>>

SkillsMatch ==
    /\ match_out = None
    /\ match_out' = Some(skills_match(Val(skill1), Val(skill2)))
    /\ UNCHANGED <<skill1, skill2, skill3, match_rev, match_23, match_13, norm_out,
                   norm_again, gapVars, pipeVars, runVars, apiVars>>

SkillsMatchSwapped ==
    /\ match_rev = None
    /\ match_rev' = Some(skills_match(Val(skill2), Val(skill1)))
    /\ UNCHANGED <<skill1, skill2, skill3, match_out, match_23, match_13, norm_out,
                   norm_again, gapVars, pipeVars, runVars, apiVars>>

\* normalize_skill applied to the value it returned
NormalizeAgain ==
    /\ norm_out # None
    /\ norm_again = None
    /\ norm_again' = Some(normalize_skill(Val(norm_out)))
    /\ UNCHANGED <<skill1, skill2, skill3, match_out, match_rev, match_23, match_13,
                   norm_out, gapVars, pipeVars, runVars, apiVars>>

SkillsMatchSecondThird ==
    /\ match_23 = None
    /\ match_23' = Some(skills_match(Val(skill2), Val(skill3)))
    /\ UNCHANGED <<skill1, skill2, skill3, match_out, match_rev, match_13, norm_out,
                   norm_again, gapVars, pipeVars, runVars, apiVars>>

SkillsMatchFirstThird ==
    /\ match_13 = None
    /\ match_13' = Some(skills_match(Val(skill1), Val(skill3)))
    /\ UNCHANGED <<skill1, skill2, skill3, match_out, match_rev, match_23, norm_out,
                   norm_again, gapVars, pipeVars, runVars, apiVars>>

MatchNext ==
    \/ NormalizeSkill
    \/ NormalizeAgain
    \/ SkillsMatch
    \/ SkillsMatchSwapped
    \/ SkillsMatchSecondThird
    \/ SkillsMatchFirstThird

SpecMatch == MatchInit /\ [][MatchNext]_vars

(***************************************************************************)
(* SpecGap: find_matching_skills and compute_gap applied to one resume and *)
(* one job; compute_gap is called a second time with the same objects.     *)
(***************************************************************************)
\* the skill lists a resume and a job may carry are drawn from the labels
GapInit ==
    /\ resume_in \in {Some(ResumeParsed(rs)) : rs \in SeqsUpTo(ResumeLabels, MaxResumeSkills)}
    /\ job_in \in {Some(JobParsed(req, pref)) :
                      req \in SeqsUpTo(JobLabels, MaxRequiredSkills),
                      pref \in SeqsUpTo(JobLabels, MaxPreferredSkills)}
    /\ resume_arg0 = resume_in
    /\ job_arg0 = job_in
    /\ matching_out = None /\ gap_out = None /\ gap_prev = None
    /\ MatchIdle
    /\ PipeIdle
    /\ RunsIdle
    /\ ApiIdle

\* find_matching_skills on the required list, before any compute_gap call
FindMatchingSkills ==
    /\ matching_out = None
    /\ gap_out = None
    /\ matching_out' = Some(find_matching_skills(Val(resume_in).skills,
                                                 Val(job_in).required_skills))
    /\ UNCHANGED <<resume_in, job_in, resume_arg0, job_arg0, gap_out, gap_prev, matchVars, pipeVars, runVars, apiVars>>

\* compute_gap(resume, job), called once and then once more: it builds new
\* lists and assigns to neither argument
ComputeGap ==
    /\ gap_prev = None
    /\ \E o \in compute_gap(resume_in, job_in) : gap_out' = Some(o)
    /\ gap_prev' = gap_out
    /\ UNCHANGED <<resume_in, job_in, resume_arg0, job_arg0, matching_out, matchVars, pipeVars, runVars, apiVars>>

GapNext == FindMatchingSkills \/ ComputeGap

SpecGap == GapInit /\ [][GapNext]_vars

(***************************************************************************)
(* Spec: resumes and job descriptions are stored through the API, and      *)
(* run_pipeline is called on stored or unknown ids; the requests are       *)
(* served one at a time.                                                   *)
(***************************************************************************)
Init == MatchIdle /\ GapIdle /\ PipeIdle /\ RunsIdle /\ ApiIdle

\* POST /api/resume/upload
UploadResume ==
    /\ pc # "running"
    /\ Len(db.resumes) < MaxResumes
    /\ db' = [db EXCEPT !.resumes =
                 add_row(@, [raw_text |-> resume_text, parsed_json |-> None])]
    /\ UNCHANGED <<pc, channels, active, task, log, result, runs, matchVars, gapVars, runVars, apiVars>>

\* POST /api/job/description/manual
SubmitManualJd ==
    /\ pc # "running"
    /\ Len(db.job_descriptions) < MaxJobs
    /\ db' = [db EXCEPT !.job_descriptions =
                 add_row(@, [extracted_text |-> job_text, parsed_json |-> None])]
    /\ UNCHANGED <<pc, channels, active, task, log, result, runs, matchVars, gapVars, runVars, apiVars>>

\* run_pipeline(resume_id, job_id, db) up to graph.invoke(initial_state)
RunPipeline ==
    /\ pc # "running"
    /\ runs < MaxRuns
    /\ \E resume_id \in 1..(MaxResumes + 1), job_id \in 1..(MaxJobs + 1) :
          /\ channels' = Some(initial_state(resume_id, job_id))
          /\ task' = [n \in Nodes |->
                         IF n = entry_point
                         THEN Task("pending", Some(initial_state(resume_id, job_id)))
                         ELSE idle_task]
    /\ pc' = "running"
    /\ active' = {entry_point}
    /\ log' = <<>>
    /\ result' = None
    /\ runs' = runs + 1
    /\ UNCHANGED <<db, matchVars, gapVars, runVars, apiVars>>

\* a node of the current superstep is called
StartTask ==
    /\ pc = "running"
    /\ \E n \in active :
          /\ task[n].status = "pending"
          /\ task' = [task EXCEPT ![n].status = "running"]
          /\ log' = Append(log, <<"start", n>>)
    /\ UNCHANGED <<db, pc, channels, active, result, runs, matchVars, gapVars, runVars, apiVars>>

\* node n has been called and has not returned
Running(n) == pc = "running" /\ n \in active /\ task[n].status = "running"

\* node n ends as r says: it returns the state dict of r (or raises) and
\* leaves the tables of r
NodeReturns(n, r) ==
    /\ task' = [task EXCEPT ![n] = [status |-> "done", state |-> Some(r.state),
                                    raised |-> r.raised, exc |-> r.exc,
                                    calls |-> r.calls, reads |-> r.reads]]
    /\ db' = r.db
    /\ log' = Append(log, <<"end", n>>)
    /\ UNCHANGED <<pc, channels, active, result, runs, matchVars, gapVars, runVars, apiVars>>

\* the node functions the graph binds to its node names (lines 37-41)
ParseResumeNode ==
    /\ Running("parse_resume")
    /\ \E r \in parse_resume_node(Val(task["parse_resume"].state), db) :
          NodeReturns("parse_resume", r)

ParseJobNode ==
    /\ Running("parse_job")
    /\ \E r \in parse_job_node(Val(task["parse_job"].state), db) :
          NodeReturns("parse_job", r)

AnalyzeGapNode ==
    /\ Running("analyze_gap")
    /\ \E r \in analyze_gap_node(Val(task["analyze_gap"].state), db) :
          NodeReturns("analyze_gap", r)

GenerateProjectsNode ==
    /\ Running("generate_projects")
    /\ \E r \in generate_projects_node(Val(task["generate_projects"].state), db) :
          NodeReturns("generate_projects", r)

ImproveResumeNode ==
    /\ Running("improve_resume")
    /\ \E r \in improve_resume_node(Val(task["improve_resume"].state), db) :
          NodeReturns("improve_resume", r)

\* all nodes of the superstep have returned: the channels are updated and the
\* next superstep is prepared, or graph.invoke ends and run_pipeline returns
\* or raises
EndStep ==
    /\ pc = "running"
    /\ \A n \in active : task[n].status = "done"
    /\ LET raising == {n \in active : task[n].raised}
           written ==
               IF raising # {}
               THEN Raised(task[CHOOSE n \in raising : TRUE].exc)
               ELSE apply_writes(active, [n \in active |-> Val(task[n].state)])
           next == IF written.raised THEN {} ELSE successors(active)
           out == run_pipeline_result(written)
       IN  /\ channels' = IF written.raised THEN channels ELSE Some(written.value)
           /\ active' = next
           /\ task' = [n \in Nodes |->
                          IF n \in next
                          THEN Task("pending", Some(written.value))
                          ELSE task[n]]
           /\ pc' = IF next # {} THEN "running"
                    ELSE IF out.raised THEN "raised" ELSE "returned"
           /\ result' = IF next # {} THEN None ELSE Some(out)
    /\ UNCHANGED <<db, log, runs, matchVars, gapVars, runVars, apiVars>>

Next ==
    \/ UploadResume
    \/ SubmitManualJd
    \/ RunPipeline
    \/ StartTask
    \/ ParseResumeNode
    \/ ParseJobNode
    \/ AnalyzeGapNode
    \/ GenerateProjectsNode
    \/ ImproveResumeNode
    \/ EndStep

Spec == Init /\ [][Next]_vars

\* graph.invoke keeps going: a scheduled node is called, a called node returns
\* (every collaborator call returns or raises), and a step whose nodes have
\* all returned is ended
SpecLive ==
    /\ Spec
    /\ WF_vars(StartTask)
    /\ WF_vars(ParseResumeNode)
    /\ WF_vars(ParseJobNode)
    /\ WF_vars(AnalyzeGapNode)
    /\ WF_vars(GenerateProjectsNode)
    /\ WF_vars(ImproveResumeNode)
    /\ WF_vars(EndStep)

(***************************************************************************)
(* SpecRuns: two callers call run_pipeline concurrently on a database that *)
(* holds two resumes and two job descriptions.  Each call builds its graph *)
(* and its PipelineState; the calls interleave node by node, and a parse   *)
(* node's query is a step of its own.                                      *)
(***************************************************************************)
StoredRecords ==
    [resumes |-> <<[raw_text |-> resume_text, parsed_json |-> None],
                   [raw_text |-> other_resume_text, parsed_json |-> None]>>,
     job_descriptions |-> <<[extracted_text |-> job_text, parsed_json |-> None],
                            [extracted_text |-> other_job_text, parsed_json |-> None]>>,
     gap_analyses |-> <<>>, project_plans |-> <<>>, improved_resumes |-> <<>>]

\* every call works on the one PipelineState instance of the first caller
state_instance_module_level(c) == "a"

\* the PipelineState instance call c works on: the dict run_pipeline builds in
\* its local variable initial_state
state_instance(c) == c

\* the node function bound to node name n
node(n, state, tables) ==
    CASE n = "parse_resume" -> parse_resume_node(state, tables)
      [] n = "parse_job" -> parse_job_node(state, tables)
      [] n = "analyze_gap" -> analyze_gap_node(state, tables)
      [] n = "generate_projects" -> generate_projects_node(state, tables)
      [] n = "improve_resume" -> improve_resume_node(state, tables)

RunsInit ==
    /\ MatchIdle /\ GapIdle /\ RunsIdle /\ ApiIdle
    /\ db = StoredRecords
    /\ pc = "idle" /\ channels = None /\ active = {}
    /\ task = [n \in Nodes |-> idle_task]
    /\ log = <<>> /\ result = None /\ runs = 0

\* caller c calls run_pipeline(resume_id, job_id, db), up to graph.invoke
CallRunPipeline(c) ==
    /\ inst[c].status = "idle"
    /\ \E resume_id \in DOMAIN StoredRecords.resumes,
          job_id \in DOMAIN StoredRecords.job_descriptions :
          /\ heap' = [heap EXCEPT ![state_instance(c)] =
                         Some(initial_state(resume_id, job_id))]
          /\ inst' = [inst EXCEPT ![c] =
                         [status |-> "running",
                          args |-> Some([resume_id |-> resume_id, job_id |-> job_id]),
                          active |-> {entry_point},
                          task |-> [n \in Nodes |->
                                       IF n = entry_point THEN Task("pending", None)
                                       ELSE idle_task],
                          result |-> None]]
    /\ UNCHANGED <<matchVars, gapVars, pipeVars, apiVars>>

\* the nodes that look a record up, test its parsed_json and may write it
ParseNodes == {"parse_resume", "parse_job"}

record_table(n) == IF n = "parse_resume" THEN "resumes" ELSE "job_descriptions"
record_id(n, state) == IF n = "parse_resume" THEN state.resume_id ELSE state.job_id

\* the tables as the session of a parse node sees them after its query: the
\* record it loaded is as the query returned it, whatever was committed since
session_view(n, state, calls, tables) ==
    IF ~ calls[1].raised /\ calls[1].value # None
    THEN [tables EXCEPT ![record_table(n)][record_id(n, state)] = Val(calls[1].value)]
    ELSE tables

\* db.commit() of a parse node: UPDATE ... SET parsed_json = ? WHERE id = ?
flush(n, state, r, tables) ==
    IF \E i \in DOMAIN r.calls : r.calls[i].fn = "commit" /\ ~ r.calls[i].raised
    THEN [tables EXCEPT ![record_table(n)][record_id(n, state)].parsed_json =
             r.db[record_table(n)][record_id(n, state)].parsed_json]
    ELSE tables

\* a parse node of the current step of call c is called and runs its query:
\* db.query(...).first() (lines 20 and 49)
CallQuery(c) ==
    /\ inst[c].status = "running"
    /\ \E n \in inst[c].active \cap ParseNodes :
          /\ inst[c].task[n].status = "pending"
          /\ \E q \in db_query(db[record_table(n)],
                                record_id(n, Val(heap[state_instance(c)]))) :
                inst' = [inst EXCEPT ![c].task[n] =
                            [Task("queried", None) EXCEPT !.calls = <<Call("query", q)>>]]
    /\ UNCHANGED <<heap, matchVars, gapVars, pipeVars, apiVars>>

\* a node of the current step of call c is called with the values of the
\* call's PipelineState and ends; a parse node goes on from its query with
\* the record as loaded, and ends
CallNode(c) ==
    /\ inst[c].status = "running"
    /\ \E n \in inst[c].active :
          LET state == Val(heap[state_instance(c)])
              view == IF n \in ParseNodes
                      THEN session_view(n, state, inst[c].task[n].calls, db)
                      ELSE db
          IN  /\ \/ n \notin ParseNodes /\ inst[c].task[n].status = "pending"
                 \/ n \in ParseNodes /\ inst[c].task[n].status = "queried"
              /\ \E r \in node(n, state, view) :
                    /\ n \in ParseNodes => r.calls[1] = inst[c].task[n].calls[1]
                    /\ inst' = [inst EXCEPT ![c].task[n] =
                                   [status |-> "done", state |-> Some(r.state),
                                    raised |-> r.raised, exc |-> r.exc,
                                    calls |-> r.calls, reads |-> r.reads]]
                    /\ db' = IF n \in ParseNodes THEN flush(n, state, r, db) ELSE r.db
    /\ UNCHANGED <<heap, pc, channels, active, task, log, result, runs, matchVars, gapVars,
                   apiVars>>

\* the nodes of the step of call c have ended: the PipelineState is updated
\* and the next step is prepared (the ended nodes are forgotten), or
\* run_pipeline returns or raises
CallEndStep(c) ==
    /\ inst[c].status = "running"
    /\ \A n \in inst[c].active : inst[c].task[n].status = "done"
    /\ LET raising == {n \in inst[c].active : inst[c].task[n].raised}
           written ==
               IF raising # {}
               THEN Raised(inst[c].task[CHOOSE n \in raising : TRUE].exc)
               ELSE apply_writes(inst[c].active,
                                 [n \in inst[c].active |-> Val(inst[c].task[n].state)])
           next == IF written.raised THEN {} ELSE successors(inst[c].active)
           out == run_pipeline_result(written)
       IN  /\ heap' = IF written.raised THEN heap
                      ELSE [heap EXCEPT ![state_instance(c)] = Some(written.value)]
           /\ inst' = [inst EXCEPT
                         ![c].active = next,
                         ![c].task = [n \in Nodes |->
                                         IF n \in next THEN Task("pending", None)
                                         ELSE IF next # {} THEN idle_task
                                         ELSE inst[c].task[n]],
                         ![c].status = IF next # {} THEN "running"
                                       ELSE IF out.raised THEN "raised" ELSE "returned",
                         ![c].result = IF next # {} THEN None ELSE Some(out)]
    /\ UNCHANGED <<matchVars, gapVars, pipeVars, apiVars>>

RunsNext ==
    \E c \in Calls : CallRunPipeline(c) \/ CallQuery(c) \/ CallNode(c) \/ CallEndStep(c)

SpecRuns == RunsInit /\ [][RunsNext]_vars

(***************************************************************************)
(* SpecApi: the REST endpoints that parse, analyse and improve, one request *)
(* at a time on a database that holds two resumes and two job descriptions. *)
(***************************************************************************)
MaxAnalyses == 2
MaxImproved == 1

\* what a request handler leaves: the response (status 200 with a body, or an
\* HTTPException's status and detail), the tables, and the calls it made
ApiResult(status, detail, body, tables, calls) ==
    [status |-> status, detail |-> detail, body |-> body, db |-> tables, calls |-> calls]

\* an exception no handler catches: the framework answers 500
InternalServerError(tables, calls) ==
    ApiResult(500, <<"Internal Server Error">>, None, tables, calls)

\* POST /api/resume/parse
parse_resume(resume_id, tables) ==
    UNION {
      LET q1 == <<Call("query", q)>>
      IN  IF q.raised THEN {InternalServerError(tables, q1)}
          ELSE IF q.value = None
          THEN {ApiResult(404, <<"Resume with id ", ToString(resume_id), " not found">>,
                          None, tables, q1)}
          ELSE IF Val(q.value).raw_text = ""
          THEN {ApiResult(400, <<"Resume has no text to parse">>, None, tables, q1)}
          ELSE UNION {
                 LET q2 == Append(q1, Call("parse_resume_text", parsed))
                 IN  IF parsed.raised
                     THEN {ApiResult(500, <<"Error parsing resume: ">> \o parsed.exc,
                                     None, tables, q2)}
                     ELSE {LET q3 == Append(q2, Call("commit", c))
                           IN  IF c.raised
                               THEN ApiResult(500, <<"Error parsing resume: ">> \o c.exc,
                                              None, tables, q3)
                               ELSE ApiResult(200, <<>>,
                                      Some([resume_id |-> resume_id,
                                            parsed_data |-> parsed.value]),
                                      [tables EXCEPT !.resumes[resume_id].parsed_json =
                                          Some(model_dump_json(parsed.value))],
                                      q3)
                           : c \in db_commit}
                 : parsed \in parse_resume_text(Val(q.value).raw_text)}
      : q \in db_query(tables.resumes, resume_id)}

\* POST /api/job/parse
parse_job(job_id, tables) ==
    UNION {
      LET q1 == <<Call("query", q)>>
      IN  IF q.raised THEN {InternalServerError(tables, q1)}
          ELSE IF q.value = None
          THEN {ApiResult(404, <<"Job description with id ", ToString(job_id), " not found">>,
                          None, tables, q1)}
          ELSE IF Val(q.value).extracted_text = ""
          THEN {ApiResult(400, <<"Job description has no text to parse">>, None, tables, q1)}
          ELSE UNION {
                 LET q2 == Append(q1, Call("parse_jd_text", parsed))
                 IN  IF parsed.raised
                     THEN {ApiResult(500, <<"Error parsing job description: ">> \o parsed.exc,
                                     None, tables, q2)}
                     ELSE {LET q3 == Append(q2, Call("commit", c))
                           IN  IF c.raised
                               THEN ApiResult(500,
                                              <<"Error parsing job description: ">> \o c.exc,
                                              None, tables, q3)
                               ELSE ApiResult(200, <<>>,
                                      Some([job_id |-> job_id,
                                            parsed_data |-> parsed.value]),
                                      [tables EXCEPT
                                          !.job_descriptions[job_id].parsed_json =
                                              Some(model_dump_json(parsed.value))],
                                      q3)
                           : c \in db_commit}
                 : parsed \in parse_jd_text(Val(q.value).extracted_text)}
      : q \in db_query(tables.job_descriptions, job_id)}

\* both records are looked for before either parsed_json is looked at
load_parsed_exist_first(resume_id, job_id, tables) ==
    LET resume == first(tables.resumes, resume_id)
        job == first(tables.job_descriptions, job_id)
        q1 == <<Call("query", Returned(resume))>>
        q2 == Append(q1, Call("query", Returned(job)))
    IN  IF resume = None
        THEN {ApiResult(404, <<"Resume with id ", ToString(resume_id), " not found">>,
                        None, tables, q1)}
        ELSE IF job = None
        THEN {ApiResult(404,
                        <<"Job description with id ", ToString(job_id), " not found">>,
                        None, tables, q2)}
        ELSE IF Val(resume).parsed_json = None
        THEN {ApiResult(400,
                        <<"Resume must be parsed first. Call POST /api/resume/parse">>,
                        None, tables, q2)}
        ELSE IF Val(job).parsed_json = None
        THEN {ApiResult(400,
                        <<"Job description must be parsed first. Call POST /api/job/parse">>,
                        None, tables, q2)}
        ELSE {ApiResult(200, <<>>, Some([resume |-> Val(resume), job |-> Val(job)]),
                        tables, q2)}

\* the four checks analyze and improve_resume_endpoint begin with: the resume
\* exists, the resume is parsed, the job exists, the job is parsed.  The
\* result is the HTTPException raised, or status 200 with the two rows
load_parsed(resume_id, job_id, tables) ==
    UNION {
      LET q1 == <<Call("query", qr)>>
      IN  IF qr.raised THEN {InternalServerError(tables, q1)}
          ELSE IF qr.value = None
          THEN {ApiResult(404, <<"Resume with id ", ToString(resume_id), " not found">>,
                          None, tables, q1)}
          ELSE IF Val(qr.value).parsed_json = None
          THEN {ApiResult(400,
                          <<"Resume must be parsed first. Call POST /api/resume/parse">>,
                          None, tables, q1)}
          ELSE UNION {
                 LET q2 == Append(q1, Call("query", qj))
                 IN  IF qj.raised THEN {InternalServerError(tables, q2)}
                     ELSE IF qj.value = None
                     THEN {ApiResult(404,
                              <<"Job description with id ", ToString(job_id), " not found">>,
                              None, tables, q2)}
                     ELSE IF Val(qj.value).parsed_json = None
                     THEN {ApiResult(400,
                              <<"Job description must be parsed first. Call POST /api/job/parse">>,
                              None, tables, q2)}
                     ELSE {ApiResult(200, <<>>,
                                     Some([resume |-> Val(qr.value), job |-> Val(qj.value)]),
                                     tables, q2)}
                 : qj \in db_query(tables.job_descriptions, job_id)}
      : qr \in db_query(tables.resumes, resume_id)}

\* POST /api/analyze
analyze(request, tables) ==
    UNION {
      IF loaded.status # 200 THEN {loaded}
      ELSE LET resume_parsed == model_validate_json(Val(Val(loaded.body).resume.parsed_json))
               job_parsed == model_validate_json(Val(Val(loaded.body).job.parsed_json))
           IN  UNION {
                 LET q3 == Append(loaded.calls, Call("compute_gap", gap))
                 IN  IF gap.raised THEN {InternalServerError(tables, q3)}
                     ELSE {LET q4 == Append(q3, Call("commit", c))
                           IN  IF c.raised THEN InternalServerError(tables, q4)
                               ELSE ApiResult(200, <<>>,
                                      Some([analysis_id |-> Len(tables.gap_analyses) + 1,
                                            resume_id |-> request.resume_id,
                                            job_id |-> request.job_id,
                                            gap_analysis |-> gap.value]),
                                      [tables EXCEPT !.gap_analyses =
                                          add_row(@, [resume_id |-> request.resume_id,
                                                      job_id |-> request.job_id,
                                                      analysis_json |->
                                                          model_dump_json(gap.value)])],
                                      q4)
                           : c \in db_commit}
                 : gap \in compute_gap(Some(resume_parsed), Some(job_parsed))}
      : loaded \in load_parsed(request.resume_id, request.job_id, tables)}

\* any stored gap analysis is taken, whatever its resume and job
first_analysis_any(table, resume_id, job_id) ==
    IF table = <<>> THEN None ELSE Some(table[1])

\* db.query(GapAnalysis).filter(resume_id == ..., job_id == ...).first()
first_analysis(table, resume_id, job_id) ==
    LET found == {i \in DOMAIN table :
                     table[i].resume_id = resume_id /\ table[i].job_id = job_id}
    IN  IF found = {} THEN None
        ELSE Some(table[CHOOSE i \in found : \A j \in found : i <= j])

\* POST /api/resume/improve
improve_resume_endpoint(resume_id, job_id, tables) ==
    UNION {
      IF loaded.status # 200 THEN {loaded}
      ELSE UNION {
        LET q3 == Append(loaded.calls, Call("query", qa))
        IN  IF qa.raised THEN {InternalServerError(tables, q3)}
            ELSE IF qa.value = None
            THEN {ApiResult(400,
                     <<"Gap analysis must be completed first. Call POST /api/analyze">>,
                     None, tables, q3)}
            ELSE UNION {
                   LET q4 == Append(q3, Call("improve_resume", improved))
                   IN  IF improved.raised
                       THEN {ApiResult(500, <<"Error improving resume: ">> \o improved.exc,
                                       None, tables, q4)}
                       ELSE {LET q5 == Append(q4, Call("commit", c))
                             IN  IF c.raised
                                 THEN ApiResult(500, <<"Error improving resume: ">> \o c.exc,
                                                None, tables, q5)
                                 ELSE ApiResult(200, <<>>,
                                        Some([improved_resume_id |->
                                                  Len(tables.improved_resumes) + 1,
                                              resume_id |-> resume_id,
                                              job_id |-> job_id,
                                              improved_resume |-> improved.value]),
                                        [tables EXCEPT !.improved_resumes =
                                            add_row(@, [resume_id |-> resume_id,
                                                        job_id |-> job_id,
                                                        improved_json |->
                                                            model_dump_json(improved.value)])],
                                        q5)
                             : c \in db_commit}
                   : improved \in improve_resume(
                         Some(model_validate_json(Val(Val(loaded.body).resume.parsed_json))),
                         Some(model_validate_json(Val(Val(loaded.body).job.parsed_json))),
                         Some(model_validate_json(Val(qa.value).analysis_json)))}
        : qa \in {Returned(first_analysis(tables.gap_analyses, resume_id, job_id)),
                  Raised(OperationalError)}}
      : loaded \in load_parsed(resume_id, job_id, tables)}

\* the ids a request may name: those of the stored rows and one more
ResumeIds == 1..(Len(StoredRecords.resumes) + 1)
JobIds == 1..(Len(StoredRecords.job_descriptions) + 1)

ApiInit ==
    /\ MatchIdle /\ GapIdle /\ RunsIdle /\ ApiIdle
    /\ db = StoredRecords
    /\ pc = "idle" /\ channels = None /\ active = {}
    /\ task = [n \in Nodes |-> idle_task]
    /\ log = <<>> /\ result = None /\ runs = 0

\* the request is served: its response and what it did are recorded
Served(endpoint, request, r) ==
    /\ api' = Some([endpoint |-> endpoint, request |-> request,
                    status |-> r.status, detail |-> r.detail, body |-> r.body,
                    before |-> db, after |-> r.db, calls |-> r.calls])
    /\ db' = r.db
    /\ UNCHANGED <<pc, channels, active, task, log, result, runs,
                   matchVars, gapVars, runVars>>

PostResumeParse ==
    \E resume_id \in ResumeIds :
        \E r \in parse_resume(resume_id, db) :
            Served("parse_resume", [resume_id |-> resume_id], r)

PostJobParse ==
    \E job_id \in JobIds :
        \E r \in parse_job(job_id, db) :
            Served("parse_job", [job_id |-> job_id], r)

PostAnalyze ==
    /\ Len(db.gap_analyses) < MaxAnalyses
    /\ \E resume_id \in ResumeIds, job_id \in JobIds :
          LET request == [resume_id |-> resume_id, job_id |-> job_id]
          IN  \E r \in analyze(request, db) : Served("analyze", request, r)

PostResumeImprove ==
    /\ Len(db.improved_resumes) < MaxImproved
    /\ \E resume_id \in ResumeIds, job_id \in JobIds :
          \E r \in improve_resume_endpoint(resume_id, job_id, db) :
              Served("improve_resume_endpoint",
                     [resume_id |-> resume_id, job_id |-> job_id], r)

ApiNext ==
    \/ PostResumeParse
    \/ PostJobParse
    \/ PostAnalyze
    \/ PostResumeImprove

SpecApi == ApiInit /\ [][ApiNext]_vars

(***************************************************************************)
(* Properties of the gap analyser (checked under SpecGap).                 *)
(***************************************************************************)
GapReturned == gap_out # None /\ ~ Val(gap_out).raised

\* the labels of ref, in order, that do / do not share a normalized key with
\* a label of cands
HasMatch(cands, label) ==
    \E i \in DOMAIN cands : normalize_skill(cands[i]) = normalize_skill(label)

RECURSIVE MatchedLabels(_, _)
MatchedLabels(cands, ref) ==
    IF ref = <<>> THEN <<>>
    ELSE (IF HasMatch(cands, Head(ref)) THEN <<Head(ref)>> ELSE <<>>)
         \o MatchedLabels(cands, Tail(ref))

RECURSIVE UnmatchedLabels(_, _)
UnmatchedLabels(cands, ref) ==
    IF ref = <<>> THEN <<>>
    ELSE (IF HasMatch(cands, Head(ref)) THEN <<>> ELSE <<Head(ref)>>)
         \o UnmatchedLabels(cands, Tail(ref))

\* C1: missing_required_skills is exactly the labels of job.required_skills
\* that match no candidate label, in the job's order and spelling, and
\* missing_preferred_skills is the same against job.preferred_skills.
C1_MissingLists ==
    GapReturned =>
        LET g == Val(gap_out).value
            rs == Val(resume_in).skills
        IN  /\ g.missing_required_skills
                  = UnmatchedLabels(rs, Val(job_in).required_skills)
            /\ g.missing_preferred_skills
                  = UnmatchedLabels(rs, Val(job_in).preferred_skills)

\* a required list of two labels of which one is matched through an alias by a
\* differently spelled candidate label, and an unmatched preferred label
C1_Witness ==
    /\ GapReturned
    /\ Val(resume_in).skills = <<lbl.JS>>
    /\ Val(job_in).required_skills = <<lbl.JavaScript, lbl.Python>>
    /\ Val(job_in).preferred_skills = <<lbl.python>>
    /\ Val(gap_out).value.missing_required_skills = <<lbl.Python>>
    /\ Val(gap_out).value.missing_preferred_skills = <<lbl.python>>

\* C2: overlapping_skills, as a set, is the union of the two
\* find_matching_skills results; it has no duplicate, holds only labels of
\* the job, and holds no candidate skill the job does not list.
C2_Overlapping ==
    GapReturned =>
        LET ov == Val(gap_out).value.overlapping_skills
            rs == Val(resume_in).skills
            req == Val(job_in).required_skills
            pref == Val(job_in).preferred_skills
        IN  /\ Range(ov) = Range(find_matching_skills(rs, req))
                           \cup Range(find_matching_skills(rs, pref))
            /\ \A i, j \in DOMAIN ov : ov[i] = ov[j] => i = j
            /\ Range(ov) \subseteq Range(req) \cup Range(pref)
            /\ \A c \in Range(rs) :
                  c \notin Range(req) \cup Range(pref) => c \notin Range(ov)

\* a job label matched in both lists (so the union is smaller than the two
\* results together) and a matching candidate label the job does not list
C2_Witness ==
    /\ GapReturned
    /\ Val(resume_in).skills = <<lbl.python, lbl.JS>>
    /\ Val(job_in).required_skills = <<lbl.Python, lbl.JavaScript>>
    /\ Val(job_in).preferred_skills = <<lbl.Python>>
    /\ Len(Val(gap_out).value.overlapping_skills) = 2

\* C3: find_matching_skills returns exactly the subsequence of the reference
\* list whose labels match a candidate label, in reference order and
\* reference spelling.
C3_FindMatching ==
    matching_out # None =>
        Val(matching_out)
            = MatchedLabels(Val(resume_in).skills, Val(job_in).required_skills)

\* two reference labels of which only the second is matched, by a candidate
\* label spelled differently
C3_Witness ==
    /\ matching_out # None
    /\ Val(resume_in).skills = <<lbl.JS, lbl.JS>>
    /\ Val(job_in).required_skills = <<lbl.Python, lbl.JavaScript>>
    /\ Val(matching_out) = <<lbl.JavaScript>>

\* C6: when no candidate label matches any job label (an empty candidate
\* list included) compute_gap returns, overlapping_skills is empty and the
\* missing lists are the job's lists; an empty job list gives an empty
\* missing list.
NoOverlap ==
    \A l \in Range(Val(job_in).required_skills) \cup Range(Val(job_in).preferred_skills) :
        ~ HasMatch(Val(resume_in).skills, l)

C6_NoOverlap ==
    gap_out # None =>
        /\ ~ Val(gap_out).raised
        /\ NoOverlap =>
              /\ Val(gap_out).value.overlapping_skills = <<>>
              /\ Val(gap_out).value.missing_required_skills
                    = Val(job_in).required_skills
              /\ Val(gap_out).value.missing_preferred_skills
                    = Val(job_in).preferred_skills
        /\ Val(job_in).required_skills = <<>>
              => Val(gap_out).value.missing_required_skills = <<>>
        /\ Val(job_in).preferred_skills = <<>>
              => Val(gap_out).value.missing_preferred_skills = <<>>

\* compute_gap has returned for an empty candidate list and a job with two
\* required labels and one preferred label
C6_Witness ==
    /\ GapReturned
    /\ Val(resume_in).skills = <<>>
    /\ Len(Val(job_in).required_skills) = 2
    /\ Len(Val(job_in).preferred_skills) = 1
    /\ Val(gap_out).value.overlapping_skills = <<>>

\* C7: when every required and preferred label matches a candidate label,
\* both missing lists are empty and overlapping_skills has as many entries
\* as the job has distinct labels.
FullMatch ==
    \A l \in Range(Val(job_in).required_skills) \cup Range(Val(job_in).preferred_skills) :
        HasMatch(Val(resume_in).skills, l)

C7_FullMatch ==
    GapReturned /\ FullMatch =>
        /\ Val(gap_out).value.missing_required_skills = <<>>
        /\ Val(gap_out).value.missing_preferred_skills = <<>>
        /\ Len(Val(gap_out).value.overlapping_skills)
              = Cardinality(Range(Val(job_in).required_skills)
                            \cup Range(Val(job_in).preferred_skills))

\* a fully matched job whose preferred label is also a required label
C7_Witness ==
    /\ GapReturned
    /\ FullMatch
    /\ Val(resume_in).skills = <<lbl.JS, lbl.python>>
    /\ Val(job_in).required_skills = <<lbl.Python, lbl.JavaScript>>
    /\ Val(job_in).preferred_skills = <<lbl.JavaScript>>

AliasKey(label) ==
    LET s == str_strip(str_lower(label))
        rows == {r \in Range(replacements) : r.old = s}
    IN  IF rows = {} THEN s ELSE (CHOOSE r \in rows : TRUE).new

\* C4: skills_match(a, b) is true exactly when the normalized keys of a and b
\* are equal, the key being the trimmed, lowercased label or, when that whole
\* string is an alias, its target; JavaScript/JS, React.js/React and
\* PostgreSQL/Postgres match, Python/Java do not, and a label that contains
\* an alias as a substring keeps its own key.
C4_MatchIsKeyEquality ==
    /\ match_out # None =>
          /\ Val(match_out) = (AliasKey(Val(skill1)) = AliasKey(Val(skill2)))
          /\ Val(skill1) = lbl.JavaScript /\ Val(skill2) = lbl.JS => Val(match_out)
          /\ Val(skill1) = lbl.React_js /\ Val(skill2) = lbl.React => Val(match_out)
          /\ Val(skill1) = lbl.PostgreSQL /\ Val(skill2) = lbl.Postgres => Val(match_out)
          /\ Val(skill1) = lbl.Python /\ Val(skill2) = lbl.Java => ~ Val(match_out)
          /\ Val(skill1) = lbl.JavaScripts /\ Val(skill2) = lbl.JavaScript
                => ~ Val(match_out)
    /\ norm_out # None =>
          /\ Val(norm_out) = AliasKey(Val(skill1))
          /\ Val(skill1) = lbl.JavaScripts
                => Val(norm_out) = <<"j","a","v","a","s","c","r","i","p","t","s">>

\* a label that contains the alias "javascript" was normalized and compared
\* with the alias itself
C4_Witness ==
    /\ Val(skill1) = lbl.JavaScripts
    /\ Val(skill2) = lbl.JavaScript
    /\ norm_out # None
    /\ match_out = Some(FALSE)

\* C5: skills_match(a, b) = skills_match(b, a), and skills_match(a, a) is
\* true for every non-blank a.
C5_SymmetricReflexive ==
    /\ match_out # None /\ match_rev # None => Val(match_out) = Val(match_rev)
    /\ match_out # None /\ skill1 = skill2 /\ str_strip(Val(skill1)) # <<>>
          => Val(match_out)

\* an alias and a padded, differently cased spelling of its target compared
\* in both directions
C5_Witness ==
    /\ Val(skill1) = lbl.JavaScript
    /\ Val(skill2) = lbl.js_padded
    /\ match_out = Some(TRUE)
    /\ match_rev = Some(TRUE)

(***************************************************************************)
(* Properties of the pipeline (checked under Spec).                        *)
(***************************************************************************)
RunEnded == pc \in {"returned", "raised"}

Count(event) == Cardinality({i \in DOMAIN log : log[i] = event})

\* every occurrence of event b in the log comes after an occurrence of a
Precedes(a, b) ==
    \A j \in DOMAIN log : log[j] = b => \E i \in 1..(j - 1) : log[i] = a

\* C9: in a run every stage is called exactly once, never again, and in
\* order: parse_job starts after parse_resume has ended, analyze_gap after
\* both parse stages have ended, and generate_projects and improve_resume
\* after analyze_gap has ended.
C9_StagesOnceInOrder ==
    /\ \A n \in Nodes : Count(<<"start", n>>) <= 1 /\ Count(<<"end", n>>) <= 1
    /\ \A n \in Nodes : Precedes(<<"start", n>>, <<"end", n>>)
    /\ RunEnded => \A n \in Nodes : Count(<<"start", n>>) = 1 /\ Count(<<"end", n>>) = 1
    /\ Precedes(<<"end", "parse_resume">>, <<"start", "parse_job">>)
    /\ Precedes(<<"end", "parse_resume">>, <<"start", "analyze_gap">>)
    /\ Precedes(<<"end", "parse_job">>, <<"start", "analyze_gap">>)
    /\ Precedes(<<"end", "analyze_gap">>, <<"start", "generate_projects">>)
    /\ Precedes(<<"end", "analyze_gap">>, <<"start", "improve_resume">>)

\* a second run has ended, with all ten start and end events in its log
C9_Witness ==
    /\ RunEnded
    /\ runs = 2
    /\ Len(log) = 10
    /\ log[5] = <<"start", "analyze_gap">>

\* the error messages in the state dicts the last stages of the run returned
StageErrors ==
    {Val(task[n].state).error :
        n \in {m \in Nodes : task[m].status = "done" /\ successors({m}) = {}}}
    \ {None}

\* C10: run_pipeline returns a state only when the state's error is null
\* after all stages; when the error is non-null after the stages it raises
\* one exception whose message wraps the stage's error message.
C10_StageErrorSurfaced ==
    RunEnded =>
        /\ ~ Val(result).raised =>
              /\ Val(result).value.error = None
              /\ StageErrors = {}
        /\ StageErrors # {} =>
              /\ Val(result).raised
              /\ \E e \in StageErrors :
                    Val(result).exc = <<"Pipeline execution failed: ">> \o Val(e)

\* the prefix a stage's except clause puts before the exception's message
StagePrefix(n) ==
    CASE n = "parse_resume" -> "Error parsing resume: "
      [] n = "parse_job" -> "Error parsing job: "
      [] n = "analyze_gap" -> "Error in gap analysis: "
      [] n = "generate_projects" -> "Error generating projects: "
      [] n = "improve_resume" -> "Error improving resume: "

Done(n) == task[n].status = "done"

\* the state dict node n returned
Out(n) == Val(task[n].state)

\* node n made a collaborator call that raised
CallFailed(n) == \E i \in DOMAIN task[n].calls : task[n].calls[i].raised

\* C11: no stage raises: a stage in which a collaborator call (query, parser,
\* compute_gap, generator, rewriter or commit) raised has returned its state,
\* with an error message that begins with the stage's own prefix.
C11_StageCatches ==
    \A n \in Nodes :
        Done(n) =>
            /\ ~ task[n].raised
            /\ CallFailed(n) =>
                  /\ Out(n).error # None
                  /\ Head(Val(Out(n).error)) = StagePrefix(n)

\* the generator returned and the commit of its plan raised, and in the same
\* step the rewriter raised; both stages have returned
C11_Witness ==
    /\ Done("generate_projects") /\ Done("improve_resume")
    /\ Len(task["generate_projects"].calls) = 2
    /\ task["generate_projects"].calls[2] = [fn |-> "commit", raised |-> TRUE, value |-> None]
    /\ task["improve_resume"].calls
          = <<[fn |-> "improve_resume", raised |-> TRUE, value |-> None]>>
    /\ Out("improve_resume").error
          = Some(<<"Error improving resume: ", "Failed to improve resume: ">> \o LLMError)

\* the state dict node n was called with: the channel values of the end of the
\* step before (n is a node of the current step)
In(n) == Val(channels)

LaterStages == Nodes \ {entry_point}

ParsingOrGeneration ==
    {"parse_resume_text", "parse_jd_text", "compute_gap", "generate_projects",
     "improve_resume"}

\* node n called a parser, compute_gap, the generator or the rewriter
Invoked(n) == \E i \in DOMAIN task[n].calls : task[n].calls[i].fn \in ParsingOrGeneration

\* node n committed a change to the tables
Wrote(n) ==
    \E i \in DOMAIN task[n].calls :
        task[n].calls[i].fn = "commit" /\ ~ task[n].calls[i].raised

\* C12: a stage other than parse_resume that is called with a non-null error
\* returns the state it was called with, calls no parser, compute_gap,
\* generator or rewriter, and commits nothing.
C12_NoOpOnError ==
    \A n \in LaterStages \cap active :
        Done(n) /\ In(n).error # None =>
            /\ Out(n) = In(n)
            /\ ~ Invoked(n)
            /\ ~ Wrote(n)

StageOrder ==
    <<"parse_resume", "parse_job", "analyze_gap", "generate_projects", "improve_resume">>

\* node n returned an error message of its own: its except clause's or its
\* not-found branch's
Failed(n) ==
    /\ Done(n)
    /\ Out(n).error # None
    /\ Head(Val(Out(n).error)) \in
          {StagePrefix(n)}
          \cup (IF n = "parse_resume" THEN {"Resume "} ELSE {})
          \cup (IF n = "parse_job" THEN {"Job "} ELSE {})

\* the error of the first stage of the run that failed, None when none did
FirstError ==
    LET failed == {i \in DOMAIN StageOrder : Failed(StageOrder[i])}
    IN  IF failed = {} THEN None
        ELSE Out(StageOrder[CHOOSE i \in failed : \A j \in failed : i <= j]).error

\* C13: a stage called with a non-null error returns the same error, and the
\* exception run_pipeline raises carries the message of the first stage that
\* failed.
C13_FirstErrorKept ==
    /\ \A n \in LaterStages \cap active :
          Done(n) /\ In(n).error # None => Out(n).error = In(n).error
    /\ RunEnded /\ FirstError # None =>
          /\ Val(result).raised
          /\ Val(result).exc = <<"Pipeline execution failed: ">> \o Val(FirstError)

\* C14: a stage that failed returns a state that differs from the state it was
\* called with in the error field only: its payload field and its identifier
\* field are as they were on entry.
C14_FailureFrame ==
    \A n \in active :
        Failed(n) =>
            \A i \in DOMAIN StateKeys :
                StateKeys[i] # "error" => Out(n)[StateKeys[i]] = In(n)[StateKeys[i]]

\* parse_resume_text raised in parse_resume_node
ResumeParserRaised ==
    /\ Done("parse_resume")
    /\ \E i \in DOMAIN task["parse_resume"].calls :
          /\ task["parse_resume"].calls[i].fn = "parse_resume_text"
          /\ task["parse_resume"].calls[i].raised

AllStagesDone == \A n \in Nodes : Done(n)

\* the nodes of the last step of the graph
TerminalStages == {n \in Nodes : successors({n}) = {}}

\* C15: when parse_resume_text raised in parse_resume, the states the last
\* stages return have a non-null error and a null gap_analysis, and no stage
\* after parse_resume reads state["resume_parsed"].
C15_ParserFailureStops ==
    ResumeParserRaised =>
        /\ AllStagesDone =>
              \A n \in TerminalStages :
                  Out(n).error # None /\ Out(n).gap_analysis = None
        /\ \A n \in LaterStages : Done(n) => "resume_parsed" \notin task[n].reads

Parsers == {"parse_resume_text", "parse_jd_text"}

\* parse node n called its parser
ParserCalled(n) == \E i \in DOMAIN task[n].calls : task[n].calls[i].fn \in Parsers

\* parse node n found its record: the row its query returned
Found(n) ==
    /\ Done(n)
    /\ ~ task[n].calls[1].raised
    /\ task[n].calls[1].value # None

Row(n) == Val(task[n].calls[1].value)

\* C16: a parse stage calls its parser only when the row it found has no
\* parsed_json; when the row has one the stage calls no parser and sets the
\* parsed field of the state to the deserialized parsed_json; so a run that
\* finds a parsed_json on both rows calls neither parser.
C16_Memoized ==
    /\ Found("parse_resume") =>
          /\ ParserCalled("parse_resume") => Row("parse_resume").parsed_json = None
          /\ Row("parse_resume").parsed_json # None =>
                /\ ~ ParserCalled("parse_resume")
                /\ Out("parse_resume").resume_parsed
                      = Some(model_validate_json(Val(Row("parse_resume").parsed_json)))
    /\ Found("parse_job") =>
          /\ ParserCalled("parse_job") => Row("parse_job").parsed_json = None
          /\ Row("parse_job").parsed_json # None =>
                /\ ~ ParserCalled("parse_job")
                /\ Out("parse_job").job_parsed
                      = Some(model_validate_json(Val(Row("parse_job").parsed_json)))
    /\ /\ Found("parse_resume") /\ Found("parse_job")
       /\ Row("parse_resume").parsed_json # None
       /\ Row("parse_job").parsed_json # None
       => \A n \in Nodes : ~ ParserCalled(n)

\* the second run has ended; both of its parse stages found the parsed_json
\* the first run committed, and loaded it
C16_Witness ==
    /\ RunEnded
    /\ runs = 2
    /\ Found("parse_resume") /\ Found("parse_job")
    /\ Row("parse_resume").parsed_json = Some(model_dump_json(parsed_resume))
    /\ Row("parse_job").parsed_json = Some(model_dump_json(parsed_job))
    /\ Out("parse_resume").resume_parsed = Some(parsed_resume)
    /\ Out("parse_job").job_parsed = Some(parsed_job)
    /\ task["parse_job"].calls = <<[fn |-> "query", raised |-> FALSE,
                                    value |-> Some(db.job_descriptions[1])]>>

\* no collaborator call of the run raised
AllCallsSucceeded == \A n \in Nodes : Done(n) /\ ~ CallFailed(n)

\* C17: when both records exist and every collaborator call succeeds,
\* run_pipeline returns a state whose five payload fields are non-null, whose
\* three identifier fields are the ids of the rows the run stored, whose error
\* is null and whose resume_id and job_id are the arguments.
C17_SuccessReturnsState ==
    /\ RunEnded
    /\ AllCallsSucceeded
    /\ Found("parse_resume") /\ Found("parse_job")
    => /\ ~ Val(result).raised
       /\ LET final == Val(result).value
          IN  /\ final.resume_parsed # None
              /\ final.job_parsed # None
              /\ final.gap_analysis # None
              /\ final.projects # None
              /\ final.improved_resume # None
              /\ final.analysis_id = Some(Len(db.gap_analyses))
              /\ final.project_plan_id = Some(Len(db.project_plans))
              /\ final.improved_resume_id = Some(Len(db.improved_resumes))
              /\ final.error = None
              /\ final.resume_id = Val(channels).resume_id
              /\ final.job_id = Val(channels).job_id

\* parse node n looked its record up and there is none
NotFound(n) ==
    /\ Done(n)
    /\ ~ task[n].calls[1].raised
    /\ task[n].calls[1].value = None

\* C18: when the resume (the job) of the run does not exist, parse_resume
\* (parse_job) sets error to "Resume <id> not found" ("Job <id> not found"),
\* calls no parser and commits nothing; the last stages return a non-null
\* error and the run ends with run_pipeline raising.
C18_NotFound ==
    /\ NotFound("parse_resume") =>
          /\ Out("parse_resume").error
                = Some(<<"Resume ", ToString(Out("parse_resume").resume_id), " not found">>)
          /\ ~ ParserCalled("parse_resume")
          /\ ~ Wrote("parse_resume")
          /\ AllStagesDone => \A n \in TerminalStages : Out(n).error # None
          /\ RunEnded => Val(result).raised
    /\ NotFound("parse_job") =>
          /\ Out("parse_job").error
                = Some(<<"Job ", ToString(Out("parse_job").job_id), " not found">>)
          /\ ~ ParserCalled("parse_job")
          /\ ~ Wrote("parse_job")
          /\ AllStagesDone => \A n \in TerminalStages : Out(n).error # None
          /\ RunEnded => Val(result).raised

\* a run on a stored resume and on job 2, which does not exist, has ended
C18_Witness ==
    /\ RunEnded
    /\ pc = "raised"
    /\ Found("parse_resume")
    /\ NotFound("parse_job")
    /\ Out("parse_job").job_id = 2
    /\ Out("parse_job").error = Some(<<"Job ", "2", " not found">>)

\* both generation nodes have been called and neither has returned
BothRunning ==
    task["generate_projects"].status = "running"
        /\ task["improve_resume"].status = "running"

\* the keys node n writes to the channels: the keys of the dict it returned
WrittenKeys(n) == DOMAIN Out(n)

\* C19: generate_projects and improve_resume never run at the same time; one
\* has ended before the other starts, in the same order in every run; and no
\* state key is written by both.
C19_TerminalStagesSequential ==
    /\ [] ~ BothRunning
    /\ \/ [] Precedes(<<"end", "generate_projects">>, <<"start", "improve_resume">>)
       \/ [] Precedes(<<"end", "improve_resume">>, <<"start", "generate_projects">>)
    /\ [] (Done("generate_projects") /\ Done("improve_resume")
             => WrittenKeys("generate_projects") \cap WrittenKeys("improve_resume") = {})

(***************************************************************************)
(* Properties of concurrent runs (checked under SpecRuns).                 *)
(***************************************************************************)
\* what the parsers extract from the stored resume and job with these ids
StoredResumeParsed(resume_id) ==
    {o.value : o \in {p \in parse_resume_text(StoredRecords.resumes[resume_id].raw_text) :
                         ~ p.raised}}

StoredJobParsed(job_id) ==
    {o.value : o \in {p \in parse_jd_text(StoredRecords.job_descriptions[job_id].extracted_text) :
                         ~ p.raised}}

\* the PipelineState values call c has had in hand: the value of its instance
\* and the dicts the nodes of its current step returned
StatesOf(c) ==
    {Val(heap[state_instance(c)])}
    \cup {Val(inst[c].task[n].state) :
            n \in {m \in Nodes : inst[c].task[m].status = "done"}}

\* every field of state s comes from the records with the ids of args and
\* from rows stored for these ids
DerivesFrom(args, s) ==
    /\ s.resume_id = args.resume_id
    /\ s.job_id = args.job_id
    /\ s.resume_parsed # None => Val(s.resume_parsed) \in StoredResumeParsed(args.resume_id)
    /\ s.job_parsed # None => Val(s.job_parsed) \in StoredJobParsed(args.job_id)
    /\ s.gap_analysis # None =>
          \E r \in StoredResumeParsed(args.resume_id), j \in StoredJobParsed(args.job_id) :
              Returned(Val(s.gap_analysis)) \in compute_gap(Some(r), Some(j))
    /\ s.analysis_id # None =>
          /\ Val(s.analysis_id) \in DOMAIN db.gap_analyses
          /\ db.gap_analyses[Val(s.analysis_id)]
                = [resume_id |-> args.resume_id, job_id |-> args.job_id,
                   analysis_json |-> model_dump_json(Val(s.gap_analysis))]
    /\ s.project_plan_id # None =>
          /\ Val(s.project_plan_id) \in DOMAIN db.project_plans
          /\ db.project_plans[Val(s.project_plan_id)].analysis_id = s.analysis_id
    /\ s.improved_resume_id # None =>
          /\ Val(s.improved_resume_id) \in DOMAIN db.improved_resumes
          /\ db.improved_resumes[Val(s.improved_resume_id)].resume_id = args.resume_id
          /\ db.improved_resumes[Val(s.improved_resume_id)].job_id = args.job_id

\* C20: every call has a PipelineState of its own: before its first node has
\* run the state holds the call's two ids and None in every other field, and
\* under every interleaving of the calls each state a call has in hand holds
\* the call's own ids and payloads and identifiers of the records with these
\* ids.
C20_RunsIsolated ==
    \A c \in Calls :
        inst[c].status # "idle" =>
            /\ inst[c].task[entry_point].status = "pending" =>
                  \A i \in DOMAIN StateKeys :
                      Val(heap[state_instance(c)])[StateKeys[i]]
                          = CASE StateKeys[i] = "resume_id" -> Val(inst[c].args).resume_id
                              [] StateKeys[i] = "job_id" -> Val(inst[c].args).job_id
                              [] OTHER -> None
            /\ \A s \in StatesOf(c) : DerivesFrom(Val(inst[c].args), s)

\* two calls on different resumes and jobs have both ended after their gap
\* analyses were stored in the order opposite to the order of the resume ids
C20_Witness ==
    /\ \A c \in Calls : inst[c].status \in {"returned", "raised"}
    /\ Val(inst["a"].args) = [resume_id |-> 1, job_id |-> 1]
    /\ Val(inst["b"].args) = [resume_id |-> 2, job_id |-> 2]
    /\ Val(inst["a"].task["improve_resume"].state).analysis_id = Some(2)
    /\ Val(inst["b"].task["improve_resume"].state).analysis_id = Some(1)
    /\ Val(inst["a"].task["improve_resume"].state).improved_resume_id = Some(1)
    /\ Val(inst["b"].task["improve_resume"].state).improved_resume_id = Some(2)

\* C21: every run_pipeline call ends, by returning a state or by raising one
\* exception, and when it has ended all five stages have been executed,
\* whatever the earlier stages recorded.
C21_Terminates ==
    /\ (pc = "running") ~> RunEnded
    /\ [](RunEnded =>
            /\ AllStagesDone
            /\ result # None
            /\ pc = "raised" <=> Val(result).raised)

\* a run whose first stage failed has ended after all five stages ran
C21_Witness ==
    /\ RunEnded
    /\ Failed("parse_resume")
    /\ AllStagesDone
    /\ Len(log) = 10
    /\ Val(result).raised

(***************************************************************************)
(* Properties of the REST endpoints (checked under SpecApi).               *)
(***************************************************************************)
\* the last request went to this endpoint
Answered(endpoint) == api # None /\ Val(api).endpoint = endpoint

\* every query of the last request returned
QueriesReturned ==
    \A i \in DOMAIN Val(api).calls :
        Val(api).calls[i].fn = "query" => ~ Val(api).calls[i].raised

\* C22: POST /api/analyze answers 404 when the resume does not exist, else 400
\* when the resume has no parsed_json, else 404 when the job does not exist,
\* else 400 when the job has no parsed_json; a request that is not answered
\* 200 leaves the tables as they were, and a request answered 200 has added
\* exactly one GapAnalysis row, with the request's resume_id and job_id and
\* the result of compute_gap on the two parsed payloads.
C22_AnalyzeChecks ==
    Answered("analyze") =>
        LET r == Val(api)
            resume == first(r.before.resumes, r.request.resume_id)
            job == first(r.before.job_descriptions, r.request.job_id)
        IN  /\ QueriesReturned =>
                  IF resume = None
                  THEN r.status = 404 /\ Head(r.detail) = "Resume with id "
                  ELSE IF Val(resume).parsed_json = None
                  THEN r.status = 400 /\ Head(r.detail)
                          = "Resume must be parsed first. Call POST /api/resume/parse"
                  ELSE IF job = None
                  THEN r.status = 404 /\ Head(r.detail) = "Job description with id "
                  ELSE IF Val(job).parsed_json = None
                  THEN r.status = 400 /\ Head(r.detail)
                          = "Job description must be parsed first. Call POST /api/job/parse"
                  ELSE r.status \in {200, 500}
            /\ r.status # 200 => r.after = r.before
            /\ r.status = 200 =>
                  /\ Len(r.after.gap_analyses) = Len(r.before.gap_analyses) + 1
                  /\ r.after = [r.before EXCEPT !.gap_analyses =
                                   Append(@, r.after.gap_analyses[Len(r.after.gap_analyses)])]
                  /\ LET row == r.after.gap_analyses[Len(r.after.gap_analyses)]
                     IN  /\ row.resume_id = r.request.resume_id
                         /\ row.job_id = r.request.job_id
                         /\ \E g \in compute_gap(
                                Some(model_validate_json(Val(Val(resume).parsed_json))),
                                Some(model_validate_json(Val(Val(job).parsed_json)))) :
                                /\ ~ g.raised
                                /\ row.analysis_json = model_dump_json(g.value)
                                /\ Val(r.body).gap_analysis = g.value
                         /\ Val(r.body).analysis_id = Len(r.after.gap_analyses)

\* a request that names a stored, unparsed resume and a job that does not
\* exist is answered 400, not 404, after an analysis was stored
C22_Witness ==
    /\ Answered("analyze")
    /\ Val(api).request = [resume_id |-> 2, job_id |-> 3]
    /\ Val(api).before.resumes[2].parsed_json = None
    /\ Len(Val(api).before.gap_analyses) = 1
    /\ Val(api).status = 400

\* C23: POST /api/resume/improve adds an ImprovedResume row only when, at the
\* time of the request, the resume and the job are parsed and a GapAnalysis
\* row for the same pair is stored; otherwise it answers 404 or 400, does
\* not call the rewriter and leaves the tables as they were.
C23_ImproveNeedsAnalysis ==
    Answered("improve_resume_endpoint") =>
        LET r == Val(api)
            resume == first(r.before.resumes, r.request.resume_id)
            job == first(r.before.job_descriptions, r.request.job_id)
            RewriterCalled == \E i \in DOMAIN r.calls : r.calls[i].fn = "improve_resume"
            ReadyToImprove ==
                /\ resume # None /\ job # None
                /\ Val(resume).parsed_json # None
                /\ Val(job).parsed_json # None
                /\ \E i \in DOMAIN r.before.gap_analyses :
                      /\ r.before.gap_analyses[i].resume_id = r.request.resume_id
                      /\ r.before.gap_analyses[i].job_id = r.request.job_id
        IN  /\ r.after.improved_resumes # r.before.improved_resumes => ReadyToImprove
            /\ ~ ReadyToImprove =>
                  /\ QueriesReturned => r.status \in {404, 400}
                  /\ r.status # 200
                  /\ ~ RewriterCalled
                  /\ r.after = r.before
            /\ r.status = 200 =>
                  /\ RewriterCalled
                  /\ r.after.improved_resumes
                        = Append(r.before.improved_resumes,
                                 [resume_id |-> r.request.resume_id,
                                  job_id |-> r.request.job_id,
                                  improved_json |->
                                      model_dump_json(Val(r.body).improved_resume)])

\* both records are parsed and an analysis is stored for resume 1 and job 1
\* only; the request for resume 1 and job 2 is answered 400
C23_Witness ==
    /\ Answered("improve_resume_endpoint")
    /\ Val(api).request = [resume_id |-> 1, job_id |-> 2]
    /\ Val(api).before.job_descriptions[2].parsed_json # None
    /\ Val(api).before.gap_analyses # <<>>
    /\ \A i \in DOMAIN Val(api).before.gap_analyses :
          Val(api).before.gap_analyses[i].job_id = 1
    /\ Val(api).status = 400
    /\ Val(api).detail = <<"Gap analysis must be completed first. Call POST /api/analyze">>

\* node n called collaborator fn
Called(n, fn) == \E i \in DOMAIN task[n].calls : task[n].calls[i].fn = fn

\* C24: a stage does not operate on nulls: compute_gap is called only with a
\* non-null resume_parsed and job_parsed, the generator only with a non-null
\* gap_analysis, and the rewriter only with a non-null resume_parsed,
\* job_parsed and gap_analysis.
C24_NoNullArguments ==
    /\ "analyze_gap" \in active /\ Called("analyze_gap", "compute_gap") =>
          In("analyze_gap").resume_parsed # None /\ In("analyze_gap").job_parsed # None
    /\ "generate_projects" \in active /\ Called("generate_projects", "generate_projects") =>
          In("generate_projects").gap_analysis # None
    /\ "improve_resume" \in active /\ Called("improve_resume", "improve_resume") =>
          /\ In("improve_resume").resume_parsed # None
          /\ In("improve_resume").job_parsed # None
          /\ In("improve_resume").gap_analysis # None

\* job list L is split by the dictionary lookup and the pairwise scan: every
\* position is in exactly one of the two results, which keep the list's order
Partitioned(resume_skills, L) ==
    LET matching == find_matching_skills(resume_skills, L)
        missing == missing_skills(resume_skills, L)
        PositionsIn(M) == {i \in DOMAIN L : L[i] \in Range(M)}
    IN  /\ Len(matching) + Len(missing) = Len(L)
        /\ PositionsIn(matching) \cup PositionsIn(missing) = DOMAIN L
        /\ PositionsIn(matching) \cap PositionsIn(missing) = {}
        /\ matching = SelectSeq(L, LAMBDA x : x \in Range(matching))
        /\ missing = SelectSeq(L, LAMBDA x : x \in Range(missing))

\* C25: the dictionary lookup of find_matching_skills and the pairwise
\* skills_match scan of the missing lists agree: each of the job's two lists
\* is split by them, the lengths add up to the list's length, and no label
\* of overlapping_skills is in a missing list of the same result.
C25_StrategiesAgree ==
    gap_out # None =>
        LET rs == Val(resume_in).skills
            gap == Val(gap_out).value
        IN  /\ Partitioned(rs, Val(job_in).required_skills)
            /\ Partitioned(rs, Val(job_in).preferred_skills)
            /\ matching_out # None =>
                  Len(Val(matching_out)) + Len(gap.missing_required_skills)
                      = Len(Val(job_in).required_skills)
            /\ Range(gap.overlapping_skills)
                  \cap (Range(gap.missing_required_skills)
                        \cup Range(gap.missing_preferred_skills)) = {}
            /\ Range(gap.overlapping_skills)
                  \cup Range(gap.missing_required_skills)
                  \cup Range(gap.missing_preferred_skills)
                  = Range(Val(job_in).required_skills)
                    \cup Range(Val(job_in).preferred_skills)

\* the resume lists "JS"; the job requires "JavaScript" and "Python" and
\* prefers "python": "JavaScript" is matched through the key "js", the two
\* other positions are missing
C25_Witness ==
    /\ gap_out # None /\ matching_out # None
    /\ Val(resume_in).skills = <<lbl.JS>>
    /\ Val(job_in).required_skills = <<lbl.JavaScript, lbl.Python>>
    /\ Val(job_in).preferred_skills = <<lbl.python>>
    /\ Val(matching_out) = <<lbl.JavaScript>>
    /\ Val(gap_out).value.missing_required_skills = <<lbl.Python>>
    /\ Val(gap_out).value.missing_preferred_skills = <<lbl.python>>
    /\ Val(gap_out).value.overlapping_skills = <<lbl.JavaScript>>

\* C26: normalize_skill is idempotent: applied to a value it returned it
\* returns that value (no alias is a key of the table, and every key is
\* lowercase and trimmed); and skills_match is transitive: when a matches b
\* and b matches c, a matches c.
C26_IdempotentTransitive ==
    /\ norm_again # None => norm_again = norm_out
    /\ LET AliasKeys == {replacements[i].old : i \in DOMAIN replacements}
           AliasTargets == {replacements[i].new : i \in DOMAIN replacements}
       IN  /\ AliasTargets \cap AliasKeys = {}
           /\ \A k \in AliasKeys : str_strip(str_lower(k)) = k
    /\ match_out # None /\ match_23 # None /\ match_13 # None =>
          (Val(match_out) /\ Val(match_23) => Val(match_13))

\* "JavaScript" is replaced by its alias "js", which normalize_skill returns
\* as it is; "JavaScript" matches " Js ", " Js " matches "JS", and
\* "JavaScript" matches "JS"
C26_Witness ==
    /\ Val(skill1) = lbl.JavaScript /\ Val(skill2) = lbl.js_padded /\ Val(skill3) = lbl.JS
    /\ norm_out = Some(<<"j","s">>)
    /\ norm_again = Some(<<"j","s">>)
    /\ match_out = Some(TRUE) /\ match_23 = Some(TRUE) /\ match_13 = Some(TRUE)

\* the identifier fields of the state, each with its payload field, the node
\* that assigns it, the table its record is added to and the record's JSON
\* column
Identifiers ==
    {[id |-> "analysis_id", payload |-> "gap_analysis", node |-> "analyze_gap",
      table |-> "gap_analyses", json |-> "analysis_json"],
     [id |-> "project_plan_id", payload |-> "projects", node |-> "generate_projects",
      table |-> "project_plans", json |-> "plan_json"],
     [id |-> "improved_resume_id", payload |-> "improved_resume", node |-> "improve_resume",
      table |-> "improved_resumes", json |-> "improved_json"]}

\* the state dicts of the run: the channels and the dict of every node call
PipelineStates ==
    (IF channels = None THEN {} ELSE {Val(channels)})
    \cup {Val(task[n].state) : n \in {m \in Nodes : task[m].state # None}}

\* C27: in every state dict of a run an identifier that is set has its
\* payload set and names a committed record that holds the payload; a node
\* call changes an identifier only when it is the node that owns it, the
\* identifier was null and the node committed; and an identifier held by the
\* channels is not changed for the rest of the run.
C27_IdentifierImpliesPayload ==
    /\ [](\A s \in PipelineStates : \A f \in Identifiers :
            s[f.id] # None =>
               /\ s[f.payload] # None
               /\ Val(s[f.id]) \in DOMAIN db[f.table]
               /\ db[f.table][Val(s[f.id])][f.json] = model_dump_json(Val(s[f.payload])))
    /\ [](\A n \in active : \A f \in Identifiers :
            Done(n) /\ Out(n)[f.id] # In(n)[f.id] =>
               /\ n = f.node
               /\ In(n)[f.id] = None
               /\ Wrote(n))
    /\ [][\A f \in Identifiers :
            /\ runs' = runs
            /\ channels # None
            /\ Val(channels)[f.id] # None
            => Val(channels')[f.id] = Val(channels)[f.id]]_vars

\* the last step has ended its two nodes: the analysis is record 1 and each
\* of the two nodes has committed its record and returned its identifier
C27_Witness ==
    /\ Done("generate_projects") /\ Done("improve_resume")
    /\ Val(channels).analysis_id = Some(1)
    /\ Out("generate_projects").project_plan_id = Some(1)
    /\ Out("generate_projects").improved_resume_id = None
    /\ Out("improve_resume").improved_resume_id = Some(1)
    /\ Len(db.project_plans) = 1 /\ Len(db.improved_resumes) = 1

\* C28: every ProjectPlan record has a non-null analysis_id that names a
\* stored GapAnalysis record; the record generate_projects_node commits
\* carries the identifier analyze_gap_node returned earlier in the same run,
\* after it committed the analysis; and when analyze_gap_node committed
\* nothing, generate_projects_node commits nothing.
C28_PlanCarriesAnalysisId ==
    /\ \A i \in DOMAIN db.project_plans :
          /\ db.project_plans[i].analysis_id # None
          /\ Val(db.project_plans[i].analysis_id) \in DOMAIN db.gap_analyses
    /\ Done("generate_projects") =>
          /\ Wrote("generate_projects") =>
                /\ Wrote("analyze_gap")
                /\ Out("analyze_gap").analysis_id # None
                /\ db.project_plans[Val(Out("generate_projects").project_plan_id)].analysis_id
                      = Out("analyze_gap").analysis_id
                /\ LET analysis == db.gap_analyses[Val(Out("analyze_gap").analysis_id)]
                   IN  /\ analysis.resume_id = Out("analyze_gap").resume_id
                       /\ analysis.job_id = Out("analyze_gap").job_id
          /\ ~ Wrote("analyze_gap") =>
                /\ ~ Wrote("generate_projects")
                /\ Out("generate_projects").project_plan_id = None

\* the first run stored analysis 1 and plan 1; in the second run the commit
\* of the analysis raised, the generator returned a plan, and the commit of
\* the plan without analysis_id was refused
C28_Witness ==
    /\ runs = 2
    /\ Len(db.gap_analyses) = 1 /\ Len(db.project_plans) = 1
    /\ db.project_plans[1].analysis_id = Some(1)
    /\ Done("generate_projects")
    /\ Out("analyze_gap").gap_analysis # None
    /\ ~ Wrote("analyze_gap")
    /\ Out("generate_projects").projects # None
    /\ Out("generate_projects").error = Some(<<"Error generating projects: ">> \o IntegrityError)

\* C29: once a parse stage of a run has failed, no state dict of the run has
\* a gap_analysis, projects, improved_resume or one of the three
\* identifiers, no later stage commits, and the run adds no GapAnalysis,
\* ProjectPlan or ImprovedResume record.
C29_ParseFailurePersistsNothing ==
    /\ [](Failed("parse_resume") \/ Failed("parse_job") =>
            /\ \A s \in PipelineStates : \A f \in Identifiers :
                  s[f.id] = None /\ s[f.payload] = None
            /\ \A n \in Nodes \ {"parse_resume", "parse_job"} : ~ Wrote(n)
            /\ runs = 1 => \A f \in Identifiers : db[f.table] = <<>>)
    /\ [][(Failed("parse_resume") \/ Failed("parse_job")) /\ runs' = runs =>
            \A f \in Identifiers : db'[f.table] = db[f.table]]_vars

\* the resume was parsed and the job's parser raised; all stages have
\* returned, each of the three later ones with an error of its own
C29_Witness ==
    /\ AllStagesDone
    /\ Out("parse_resume").resume_parsed # None
    /\ Called("parse_job", "parse_jd_text")
    /\ Failed("parse_job")
    /\ Called("analyze_gap", "compute_gap")
    /\ Failed("analyze_gap") /\ Failed("generate_projects") /\ Failed("improve_resume")
    /\ Out("improve_resume").error
          = Some(<<"Error improving resume: ">> \o AttributeError.job_title)
    /\ db.gap_analyses = <<>> /\ db.project_plans = <<>> /\ db.improved_resumes = <<>>

\* C30: of two concurrent runs on the same resume (or job) record at most one
\* calls the parser for the record and at most one writes its parsed_json,
\* and no run checks the record's parsed_json between another run's check
\* and write.
C30_ParsedOnce ==
    LET calls(c, n) == inst[c].task[n].calls
        RecordOf(c, n) == record_id(n, Val(heap[state_instance(c)]))
        ParserCalledBy(c, n) ==
            \E i \in DOMAIN calls(c, n) : calls(c, n)[i].fn \in Parsers
        WrittenBy(c, n) ==
            \E i \in DOMAIN calls(c, n) :
                calls(c, n)[i].fn = "commit" /\ ~ calls(c, n)[i].raised
        \* the node has found its record without parsed_json and has not ended
        CheckedNull(c, n) ==
            /\ inst[c].task[n].status = "queried"
            /\ ~ calls(c, n)[1].raised
            /\ calls(c, n)[1].value # None
            /\ Val(calls(c, n)[1].value).parsed_json = None
    IN  \A n \in ParseNodes : \A c1, c2 \in Calls :
            /\ c1 # c2
            /\ inst[c1].status = "running" /\ inst[c2].status = "running"
            /\ RecordOf(c1, n) = RecordOf(c2, n)
            => /\ ~ (ParserCalledBy(c1, n) /\ ParserCalledBy(c2, n))
               /\ ~ (WrittenBy(c1, n) /\ WrittenBy(c2, n))
               /\ ~ (CheckedNull(c1, n) /\ CheckedNull(c2, n))
====
